---- MODULE Spec2Model ----
(***************************************************************************)
(* Client-side backup/restore and data import of the ERP front-end.        *)
(*                                                                         *)
(* Restore part: src/src/pages/BackupRestore.tsx (handleRestore).  The     *)
(* DataStore is the external collaborator; every call of it answers with   *)
(* a result or with an error, and a table with a natural key refuses an    *)
(* insert that would duplicate the key (error code 23505).                 *)
(***************************************************************************)
EXTENDS Integers, Sequences, FiniteSets, Bags, TLC

(***************************************************************************)
(* Bounds of the model.                                                    *)
(***************************************************************************)
\* records in one backup document, all collections together
MaxRecords == 2
\* DataStore calls that answer with a transient error, per behaviour
MaxFaults == 1
\* times the user restores the backup document
MaxRuns == 2
\* data rows of a CSV file at most
MaxRows == 2
\* files chosen in one dialog session at most
MaxSelections == 2
\* Date.now() runs from 0 to MaxClock
MaxClock == 1
\* calls of createTransaction and bulkImportTransactions at most
MaxMutations == 1

(***************************************************************************)
(* Values.  A record is a function from the names of the fields it has to  *)
(* their values; JSON null is Null, a missing field is outside DOMAIN.     *)
(***************************************************************************)
Null == "null"

\* JavaScript truthiness of a field value (null, undefined and "" are falsy)
Truthy(v) == v \notin {Null, ""}

EmptyRec == [f \in {} |-> Null]

Has(r, f) == f \in DOMAIN r

\* r[f], undefined/null when the field is missing
Get(r, f) == IF f \in DOMAIN r THEN r[f] ELSE Null

\* r restricted to the fields in S
Restrict(r, S) == [f \in (DOMAIN r) \cap S |-> r[f]]

\* object spread: the fields of b over those of a
Merge(a, b) == [f \in (DOMAIN a) \cup (DOMAIN b) |-> IF f \in DOMAIN b THEN b[f] ELSE a[f]]

(***************************************************************************)
(* Static configuration of BackupRestore.tsx                               *)
(***************************************************************************)
\* the list with sales_orders ahead of customers
tables_OrdersFirst ==
  << "accounts", "sales_orders", "vendors", "product_categories", "products",
     "employees", "customers", "sales_line_items", "purchase_orders",
     "purchase_line_items", "transactions", "stock_movements", "payroll",
     "activity_logs" >>

\* lines 18-33: the collections in the order they are exported and restored
tables ==
  << "accounts", "customers", "vendors", "product_categories", "products",
     "employees", "sales_orders", "sales_line_items", "purchase_orders",
     "purchase_line_items", "transactions", "stock_movements", "payroll",
     "activity_logs" >>

TableSet == {tables[i] : i \in 1..Len(tables)}

\* position of a collection in the fixed order
TableIndex(t) == CHOOSE i \in 1..Len(tables) : tables[i] = t

foreignKeyFields(t) ==
  CASE t = "customers" -> {"created_by"}
    [] t = "vendors" -> {"created_by"}
    [] t = "products" -> {"created_by", "supplier_id", "category_id"}
    [] t = "product_categories" -> {"created_by", "parent_id"}
    [] t = "sales_orders" -> {"created_by"}
    [] t = "sales_line_items" -> {}
    [] t = "purchase_orders" -> {"created_by"}
    [] t = "purchase_line_items" -> {}
    [] t = "transactions" -> {"created_by", "account_from", "account_to"}
    [] t = "stock_movements" -> {"created_by"}
    [] t = "employees" -> {"department_id", "created_by"}
    [] t = "payroll" -> {"created_by"}
    [] t = "activity_logs" -> {"user_id"}
    [] t = "accounts" -> {"parent_id", "created_by"}
    [] OTHER -> {}

tablesWithRequiredForeignKeys(t) ==
  CASE t = "stock_movements" -> << "product_id" >>
    [] t = "sales_orders" -> << "customer_id" >>
    [] t = "sales_line_items" -> << "sale_id", "product_id" >>
    [] t = "purchase_orders" -> << "vendor_id" >>
    [] t = "purchase_line_items" -> << "purchase_order_id", "product_id" >>
    [] t = "payroll" -> << "employee_id" >>
    [] OTHER -> << >>

\* the optional foreign keys and the collections they reference
optionalFkMapping ==
  [f \in {"category_id", "supplier_id", "parent_id", "account_from", "account_to"} |->
     CASE f = "category_id" -> "product_categories"
       [] f = "supplier_id" -> "vendors"
       [] f = "parent_id" -> "accounts"
       [] f = "account_from" -> "accounts"
       [] f = "account_to" -> "accounts"]

\* the collection a required foreign key references ('' when unknown)
referencedTable(fkField) ==
  CASE fkField = "customer_id" -> "customers"
    [] fkField = "vendor_id" -> "vendors"
    [] fkField = "product_id" -> "products"
    [] fkField = "sale_id" -> "sales_orders"
    [] fkField = "purchase_order_id" -> "purchase_orders"
    [] fkField = "employee_id" -> "employees"
    [] OTHER -> ""

\* uniqueField with the natural key of products taken to be 'code'
uniqueField_ProductCode(t) ==
  CASE t \in {"accounts", "customers", "vendors", "products"} -> "code"
    [] t = "product_categories" -> "name"
    [] t \in {"sales_orders", "purchase_orders"} -> "order_number"
    [] t = "employees" -> "employee_number"
    [] OTHER -> ""

\* the natural key used to decide insert or update ('' when there is none)
uniqueField(t) ==
  CASE t \in {"accounts", "customers", "vendors"} -> "code"
    [] t = "products" -> "sku"
    [] t = "product_categories" -> "name"
    [] t \in {"sales_orders", "purchase_orders"} -> "order_number"
    [] t = "employees" -> "employee_number"
    [] OTHER -> ""

batchSize == 50

(***************************************************************************)
(* The DataStore's schema, as handleRestore presupposes it: the column     *)
(* that carries a UNIQUE constraint in each collection ('' for none).      *)
(***************************************************************************)
UniqueColumn(t) ==
  CASE t \in {"accounts", "customers", "vendors"} -> "code"
    [] t = "products" -> "sku"
    [] t = "product_categories" -> "name"
    [] t \in {"sales_orders", "purchase_orders"} -> "order_number"
    [] t = "employees" -> "employee_number"
    [] OTHER -> ""

\* the reference columns of a collection that may be null, and their targets
OptionalRefs(t) ==
  CASE t = "products" -> {"category_id", "supplier_id"}
    [] t = "product_categories" -> {"parent_id"}
    [] t = "accounts" -> {"parent_id"}
    [] t = "transactions" -> {"account_from", "account_to"}
    [] OTHER -> {}

\* the column naming the acting user
ActorField(t) == IF t = "activity_logs" THEN "user_id" ELSE "created_by"

RequiredSet(t) ==
  {tablesWithRequiredForeignKeys(t)[i] : i \in 1..Len(tablesWithRequiredForeignKeys(t))}

(***************************************************************************)
(* Backup documents.  A document holds at most MaxRecords records; the     *)
(* record at position j of a collection has the old id "o<j>", as export   *)
(* writes the rows of a collection, each with its own id.                  *)
(*   variant 1, 2: natural key "k<v>", every reference field "o<v>"        *)
(*   variant 0   : as variant 1 with every required reference null         *)
(*   variant 3   : only id and acting user (nothing left after cleaning)   *)
(***************************************************************************)
Variants(t) == IF RequiredSet(t) = {} THEN {1, 2, 3} ELSE {0, 1, 2, 3}

Tag(prefix, n) == prefix \o ToString(n)

MkRecord(t, v, j) ==
  LET base == [f \in {"id", ActorField(t)} |-> IF f = "id" THEN Tag("o", j) ELSE "u1"]
      vv == IF v = 0 THEN 1 ELSE v
      keyF == IF UniqueColumn(t) = "" THEN {} ELSE {UniqueColumn(t)}
      body == [f \in keyF \cup RequiredSet(t) \cup OptionalRefs(t) \cup {"notes"} |->
                 IF f \in keyF THEN Tag("k", vv)
                 ELSE IF f \in RequiredSet(t) THEN (IF v = 0 THEN Null ELSE Tag("o", vv))
                 ELSE IF f \in OptionalRefs(t) THEN Tag("o", vv)
                 ELSE Tag("x", vv)]
  IN IF v = 3 THEN base ELSE Merge(base, body)

Slots == UNION {[t : {t}, v : Variants(t)] : t \in TableSet}

\* slot sequences in collection order
SlotSeqs(n) ==
  UNION {{s \in [1..m -> Slots] :
            \A i \in 1..m : \A j \in 1..m : i < j => TableIndex(s[i].t) <= TableIndex(s[j].t)}
         : m \in 1..n}

DataOf(slots) ==
  [t \in TableSet |->
     LET mine == SelectSeq(slots, LAMBDA s : s.t = t)
     IN [j \in 1..Len(mine) |-> MkRecord(t, mine[j].v, j)]]

Documents(n) ==
  {[version |-> "1.0", created_by_email |-> "a@b", data |-> DataOf(s)] : s \in SlotSeqs(n)}

\* Files whose top-level data is not a mapping of collections: `data` is missing
\* ("undefined"), null, a falsy scalar ("zero"), a string or an array.  Reading a
\* collection name from any of them gives no array, so `data` holds no records.
OtherDocuments ==
  {[version |-> "1.0", created_by_email |-> "a@b", kind |-> k, data |-> [t \in TableSet |-> << >>]] :
     k \in {"undefined", "null", "zero", "string", "array"}}

\* A document with one collection of more records than a batch takes: batchSize + 1
\* accounts, each with its own id and natural key.
LargeDocuments ==
  {[version |-> "1.0", created_by_email |-> "a@b",
    data |-> [t \in TableSet |->
                IF t = "accounts" THEN [j \in 1..(batchSize + 1) |-> MkRecord(t, j, j)] ELSE << >>]]}

\* what kind of JSON value backup.data is
DataKind(doc) == IF Has(doc, "kind") THEN doc.kind ELSE "object"

\* line 164: !backup.data || typeof backup.data !== 'object'
InvalidFormat(doc) ==
  LET falsy == DataKind(doc) \in {"undefined", "null", "zero"}
      typeof == CASE DataKind(doc) \in {"object", "array", "null"} -> "object"
                  [] DataKind(doc) = "zero" -> "number"
                  [] OTHER -> DataKind(doc)
  IN falsy \/ typeof # "object"

(***************************************************************************)
(* The DataStore before the first restore: empty, or holding in every      *)
(* collection with a natural key one row "e1" with key "k1", whose         *)
(* references point to the rows "e2" (key "k9").                           *)
(***************************************************************************)
SeedRow(t, id) ==
  [f \in {UniqueColumn(t), "notes"} \cup RequiredSet(t) \cup OptionalRefs(t) |->
     IF f = UniqueColumn(t) THEN (IF id = "e1" THEN "k1" ELSE "k9")
     ELSE IF f = "notes" THEN "old"
     ELSE IF f \in RequiredSet(t) \/ id = "e1" THEN "e2" ELSE Null]

EmptyStore == [t \in TableSet |-> EmptyRec]

SeededStore ==
  [t \in TableSet |->
     IF UniqueColumn(t) = "" THEN EmptyRec
     ELSE [id \in {"e1", "e2"} |-> SeedRow(t, id)]]

(***************************************************************************)
(* handleRestore, the cleaning of one record (pure parts)                  *)
(***************************************************************************)
\* lines 213-246: drop id and timestamps, drop the table's foreignKeyFields,
\* map the optional foreign keys that are left through idMappings
CleanRecord(t, record, idm) ==
  LET rest == Restrict(record, (DOMAIN record) \ {"id", "created_at", "updated_at"})
      keep == (DOMAIN rest) \ foreignKeyFields(t)
  IN [k \in keep |->
        IF Truthy(rest[k]) /\ k \in DOMAIN optionalFkMapping
        THEN LET rt == optionalFkMapping[k]
             IN IF rt \in DOMAIN idm /\ rest[k] \in DOMAIN idm[rt]
                THEN idm[rt][rest[k]]
                ELSE Null
        ELSE rest[k]]

\* MapRequiredFks without the skip: an unresolved required key is left as it is
RECURSIVE MapRequiredFks_NoSkip(_, _, _, _)
MapRequiredFks_NoSkip(cleanRecord, requiredFks, i, idm) ==
  IF i > Len(requiredFks)
  THEN [skipRecord |-> FALSE, cleanRecord |-> cleanRecord]
  ELSE LET fkField == requiredFks[i]
           rt == referencedTable(fkField)
       IN IF Truthy(Get(cleanRecord, fkField)) /\ rt \in DOMAIN idm
             /\ cleanRecord[fkField] \in DOMAIN idm[rt]
          THEN MapRequiredFks_NoSkip([cleanRecord EXCEPT ![fkField] = idm[rt][cleanRecord[fkField]]],
                                     requiredFks, i + 1, idm)
          ELSE MapRequiredFks_NoSkip(cleanRecord, requiredFks, i + 1, idm)

\* lines 254-282: the loop over the required foreign keys, from the i-th on
RECURSIVE MapRequiredFks(_, _, _, _)
MapRequiredFks(cleanRecord, requiredFks, i, idm) ==
  IF i > Len(requiredFks)
  THEN [skipRecord |-> FALSE, cleanRecord |-> cleanRecord]
  ELSE LET fkField == requiredFks[i]
           rt == referencedTable(fkField)
       IN IF Truthy(Get(cleanRecord, fkField))
          THEN IF rt # "" /\ rt \in DOMAIN idm /\ cleanRecord[fkField] \in DOMAIN idm[rt]
               THEN MapRequiredFks([cleanRecord EXCEPT ![fkField] = idm[rt][cleanRecord[fkField]]],
                                   requiredFks, i + 1, idm)
               ELSE IF rt # ""
                    THEN [skipRecord |-> TRUE, cleanRecord |-> cleanRecord]
                    ELSE MapRequiredFks(cleanRecord, requiredFks, i + 1, idm)
          ELSE [skipRecord |-> TRUE, cleanRecord |-> cleanRecord]

(***************************************************************************)
(* State                                                                   *)
(***************************************************************************)
VARIABLES
  store,             \* DataStore: collection -> (row id -> row)
  nextId,            \* DataStore: number of the next generated id
  seeded,            \* whether the DataStore held rows before the first restore
  faults,            \* DataStore calls and file reads that answered with an error
  backup,            \* the backup document the user restores
  runs,              \* restore runs started
  pc,                \* position of handleRestore
  isRestoring,       \* useState isRestoring
  backupStatus,      \* useState backupStatus.type
  toast,             \* last toast shown
  reloadScheduled,   \* window.location.reload was scheduled
  ti,                \* index of the collection in `tables`
  bi,                \* i of the batch loop (offset of the batch)
  ri,                \* position of the record loop in the batch (1-based)
  tableErrors,       \* let tableErrors
  successfulInserts, \* successfulInserts.length
  errors,            \* const errors
  restoredCounts,    \* const restoredCounts
  totalRestored,     \* let totalRestored
  idMappings,        \* const idMappings
  cur,               \* the record in work: oldId, cleanRecord, existing
  runLimit,          \* restore runs the user starts at most
  confirmed,         \* const confirmed: the user's answer to window.confirm
  session,           \* the identity of the current session, or none
  calls,             \* the invocations of createBackup and handleRestore, each with its position
  isBackingUp,       \* useState isBackingUp
  backupData,        \* const backupData of createBackup
  bti,               \* createBackup: index of the collection to fetch, 0 when it is not running
  download,          \* the backup file the browser downloaded last
  failing,           \* the collections whose select answers with an error
  trace,             \* history: what became of each record of each run
  dialog,            \* which import dialog is mounted: "transactions" or "salesOrders"
  open,              \* prop open of the dialog
  file,              \* useState file
  parsedRows,        \* useState parsedRows
  isProcessing,      \* useState isProcessing
  error,             \* useState error
  pending,           \* the promise the dialog awaits: file.text() or onImport(...)
  onImportCalls,     \* the batches onImport was called with, in order
  parses,            \* history: every completed parseCSV call (file name, rows)
  clock,             \* Date.now()
  selections,        \* files chosen so far
  csvFile,           \* the CSV file the user works on
  accounts,          \* prop accounts (loaded reference data)
  customers,         \* prop customers
  products,          \* prop products
  mutation,          \* the last createTransaction / bulkImportTransactions call and its outcome
  mutations,         \* mutations called so far
  mutationLimit,     \* mutations the user calls at most
  revalidation,      \* the last re-validation of a candidate against its schema, with its outcome
  formOpen,          \* TransactionFormDialog: prop open
  transaction,       \* TransactionFormDialog: prop transaction (no field when null)
  formData,          \* TransactionFormDialog: useState formData
  pickers,           \* the two HierarchicalAccountSelects: open, searchQuery, expandedId
  onSaveCalls,       \* the form data onSave was called with, in order
  formToast,         \* the title of the last toast of the form
  saving,            \* the promise the last onSave call returned: none, pending, resolved, rejected
  walk,              \* HierarchicalAccountSelect: the computation of the search filter, step by step
  auth,              \* AuthProvider: useState user, role, session and fetchingUserIdRef
  fetches,           \* AuthProvider: the profile and role fetches in flight
  authEvents,        \* the auth events supabase has emitted and the listener has not yet handled
  authCalls,         \* initializeAuth, login and logout calls waiting for supabase.auth
  authRuns,          \* logins, logouts and token refreshes so far
  signedOut          \* history: a sign-out was handled and no sign-in since

\* the state of the schema re-validation and of manual entry
entryVars == << formOpen, transaction, formData, pickers, onSaveCalls, formToast, saving >>
authVars == << auth, fetches, authEvents, authCalls, authRuns, signedOut >>
formVars == << revalidation, entryVars, walk, authVars >>

vars ==
  << store, nextId, seeded, faults, backup, runs, pc, isRestoring, backupStatus, toast,
     reloadScheduled, ti, bi, ri, tableErrors, successfulInserts, errors, restoredCounts,
     totalRestored, idMappings, cur, runLimit, confirmed, session, calls, formVars, trace,
     isBackingUp, backupData, bti, download, failing,
     dialog, open, file, parsedRows, isProcessing, error, pending, onImportCalls, parses, clock,
     selections, csvFile, accounts, customers, products, mutation, mutations,
     mutationLimit >>

dsVars == << store, nextId, seeded, faults >>
restoreVars ==
  << backup, runs, pc, isRestoring, backupStatus, toast, reloadScheduled, ti, bi, ri, tableErrors,
     successfulInserts, errors, restoredCounts, totalRestored, idMappings, cur, runLimit, confirmed,
     trace >>
refVars == << accounts, customers, products >>
exportVars == << isBackingUp, backupData, bti, download, failing >>
dialogVars ==
  << dialog, open, file, parsedRows, isProcessing, error, pending, onImportCalls, parses, clock,
     selections, csvFile >>
txnVars == << mutation, mutations, mutationLimit >>
uiVars == << isRestoring, backupStatus, toast, reloadScheduled >>
runVars == << errors, restoredCounts, totalRestored, idMappings >>

\* supabase.auth.getUser() / useAuth(): nobody is signed in, or user u1 is
Sessions == {Null, "u1"}

\* nothing was downloaded
NoDownload == [version |-> "none"]

NoCur == [oldId |-> Null, cleanRecord |-> EmptyRec, existing |-> Null]

table == tables[ti]
tableData == backup.data[table]
\* tableData.slice(i, i + batchSize)
batch == SubSeq(tableData, bi + 1, IF bi + batchSize < Len(tableData) THEN bi + batchSize ELSE Len(tableData))
\* a loop that takes the records of a batch from the last to the first
record_Reversed == batch[Len(batch) + 1 - ri]

\* for (const record of batch)
record == batch[ri]

(***************************************************************************)
(* DataStore                                                               *)
(***************************************************************************)
\* .select('id').eq(field, value): the ids of the matching rows
Matching(t, field, value) == {id \in DOMAIN store[t] : Get(store[t][id], field) = value}

\* an insert of the payload would break the UNIQUE constraint of the collection
UniqueViolation(t, payload) ==
  /\ UniqueColumn(t) # ""
  /\ Truthy(Get(payload, UniqueColumn(t)))
  /\ Matching(t, UniqueColumn(t), payload[UniqueColumn(t)]) # {}

MayFail == faults < MaxFaults

\* no restore has run; the user has one of the documents at hand
\* no candidate was re-validated
NoRevalidation == [kind |-> "none"]

\* prop transaction = null
NoTransaction == EmptyRec

\* lines 23-33 and 39-49: the form data of a new transaction (amount: undefined); of the
\* fields the handlers never read, type stands for all
BlankForm == [type |-> "sale", description |-> "", accountFrom |-> "", accountTo |-> ""]

\* HierarchicalAccountSelect.tsx 78-81: useState(false), useState(""), useState(null)
ClosedPicker == [open |-> FALSE, searchQuery |-> "", expandedId |-> Null]

\* the two selects of the form, by the field they set
Sides == {"accountFrom", "accountTo"}

\* no search filter was computed
NoWalk ==
  [at |-> "idle", searchQuery |-> "", todo |-> << >>, currentId |-> Null, parentsToExpand |-> {},
   filtered |-> {}, searches |-> 0]

\* useState<User | null>(null), useState<Role | null>(null): no user, no role
NoUser == EmptyRec
NoRole == EmptyRec

\* the AuthProvider as constructed, with nothing in flight
AuthIdle ==
  /\ auth = [user |-> NoUser, role |-> NoRole, session |-> Null, fetchingUserIdRef |-> Null,
             mounted |-> FALSE]
  /\ fetches = EmptyBag /\ authEvents = << >> /\ authCalls = EmptyBag
  /\ authRuns = [login |-> 0, logout |-> 0, refresh |-> 0]
  /\ signedOut = FALSE

\* nothing was re-validated and no form is mounted
FormIdle ==
  /\ revalidation = NoRevalidation
  /\ formOpen = FALSE /\ transaction = NoTransaction /\ formData = BlankForm
  /\ pickers = [side \in Sides |-> ClosedPicker]
  /\ onSaveCalls = << >> /\ formToast = Null /\ saving = "none"
  /\ walk = NoWalk
  /\ AuthIdle

InitRestoreVars(docs, nruns) ==
  /\ backup \in docs
  /\ runs = 0
  /\ runLimit = nruns
  /\ pc = "idle"
  /\ isRestoring = FALSE
  /\ backupStatus = Null
  /\ toast = Null
  /\ reloadScheduled = FALSE
  /\ ti = 1 /\ bi = 0 /\ ri = 1
  /\ tableErrors = 0
  /\ successfulInserts = 0
  /\ errors = << >>
  /\ restoredCounts = EmptyRec
  /\ totalRestored = 0
  /\ idMappings = EmptyRec
  /\ cur = NoCur
  /\ confirmed = Null
  /\ session \in Sessions
  /\ calls = << >>
  /\ FormIdle
  /\ isBackingUp = FALSE
  /\ backupData = EmptyRec
  /\ bti = 0
  /\ download = NoDownload
  /\ trace = {}

InitRestore(docs, nruns) ==
  /\ seeded \in BOOLEAN
  /\ store = IF seeded THEN SeededStore ELSE EmptyStore
  /\ nextId = 1
  /\ faults = 0
  /\ InitRestoreVars(docs, nruns)

\* the dialog awaits nothing
NoPending == [op |-> "none"]

\* no import dialog is mounted
DialogIdle ==
  /\ dialog = Null /\ open = FALSE /\ file = Null /\ parsedRows = << >>
  /\ isProcessing = FALSE /\ error = Null /\ pending = NoPending
  /\ onImportCalls = << >> /\ parses = {} /\ clock = 0 /\ selections = 0 /\ csvFile = Null

\* no reference data is loaded
NoReferenceData == accounts = << >> /\ customers = << >> /\ products = << >>

\* no transaction mutation was called
TxnIdle == mutation = [op |-> "none"] /\ mutations = 0 /\ mutationLimit = MaxMutations

Init == InitRestore(Documents(MaxRecords), 1) /\ failing = {} /\ DialogIdle /\ NoReferenceData /\ TxnIdle

(***************************************************************************)
(* handleRestore, lines 145-463                                            *)
(***************************************************************************)
\* lines 145-167 and 451-462: file chosen, authentication, file read and parsed; a file
\* of invalid format makes the handler throw, which its catch and finally blocks answer
HandleRestore ==
  /\ UNCHANGED << refVars, session, calls, formVars, exportVars, dialogVars, txnVars >>
  /\ pc = "idle" /\ ~isRestoring /\ runs < runLimit
  /\ \E authUser \in {session # Null} :
       IF ~authUser
       THEN /\ toast' = "auth-error"
            /\ UNCHANGED << isRestoring, backupStatus, pc, runs >>
       ELSE IF InvalidFormat(backup)
       THEN /\ isRestoring' = FALSE
            /\ backupStatus' = "error"
            /\ toast' = "restore-error"
            /\ runs' = runs + 1
            /\ UNCHANGED pc
       ELSE /\ isRestoring' = TRUE
            /\ backupStatus' = Null
            /\ runs' = runs + 1
            /\ pc' = "confirm"
            /\ toast' = Null
  /\ UNCHANGED << dsVars, runVars, backup, reloadScheduled, ti, bi, ri, tableErrors,
                  successfulInserts, cur, runLimit, trace >>
  /\ confirmed' = Null

\* a prompt whose answer is not looked at
Confirm_Regardless ==
  /\ UNCHANGED << refVars, session, calls, formVars, exportVars, dialogVars, txnVars >>
  /\ pc = "confirm"
  /\ \E answer \in BOOLEAN : confirmed' = IF answer THEN "true" ELSE "false"
  /\ totalRestored' = 0
  /\ errors' = << >>
  /\ idMappings' = EmptyRec
  /\ restoredCounts' = EmptyRec
  /\ ti' = 1
  /\ pc' = "table"
  /\ UNCHANGED << dsVars, uiVars, backup, runs, bi, ri, tableErrors, successfulInserts, cur,
                  runLimit, trace >>

\* a run that goes on with the ID map of the run before
Confirm_KeepingMap ==
  /\ UNCHANGED << refVars, session, calls, formVars, exportVars, dialogVars, txnVars >>
  /\ pc = "confirm"
  /\ \E answer \in BOOLEAN :
       IF ~answer
       THEN /\ confirmed' = "false"
            /\ isRestoring' = FALSE
            /\ pc' = "idle"
            /\ UNCHANGED << runVars, ti >>
       ELSE /\ confirmed' = "true"
            /\ totalRestored' = 0
            /\ errors' = << >>
            /\ restoredCounts' = EmptyRec
            /\ ti' = 1
            /\ pc' = "table"
            /\ UNCHANGED << isRestoring, idMappings >>
  /\ UNCHANGED << dsVars, backup, runs, backupStatus, toast, reloadScheduled, bi, ri,
                  tableErrors, successfulInserts, cur, runLimit, trace >>

\* lines 169-185: window.confirm, then the locals of the run
Confirm ==
  /\ UNCHANGED << refVars, session, calls, formVars, exportVars, dialogVars, txnVars >>
  /\ pc = "confirm"
  /\ \E answer \in BOOLEAN :
       IF ~answer
       THEN /\ confirmed' = "false"
            /\ isRestoring' = FALSE
            /\ pc' = "idle"
            /\ UNCHANGED << runVars, ti >>
       ELSE /\ confirmed' = "true"
            /\ totalRestored' = 0
            /\ errors' = << >>
            /\ idMappings' = EmptyRec
            /\ restoredCounts' = EmptyRec
            /\ ti' = 1
            /\ pc' = "table"
            /\ UNCHANGED isRestoring
  /\ UNCHANGED << dsVars, backup, runs, backupStatus, toast, reloadScheduled, bi, ri,
                  tableErrors, successfulInserts, cur, runLimit, trace >>

\* the collections from the i-th on that the document has records for
Pending(i) == {j \in i..Len(tables) : Len(backup.data[tables[j]]) > 0}

\* lines 191-204: head of the loop over the collections
NextTable ==
  /\ UNCHANGED << refVars, session, calls, formVars, exportVars, dialogVars, txnVars >>
  /\ pc = "table"
  /\ IF Pending(ti) = {}
     THEN /\ pc' = "summary"
          /\ UNCHANGED << ti, bi, ri, tableErrors, successfulInserts, restoredCounts, idMappings >>
     ELSE LET j == CHOOSE k \in Pending(ti) : \A m \in Pending(ti) : k <= m
          IN /\ ti' = j
             /\ restoredCounts' = Merge(restoredCounts, [t \in {tables[j]} |-> 0])
             /\ idMappings' = Merge(idMappings, [t \in {tables[j]} |-> EmptyRec])
             /\ tableErrors' = 0
             /\ bi' = 0
             /\ ri' = 1
             /\ successfulInserts' = 0
             /\ pc' = "record"
  /\ UNCHANGED << dsVars, uiVars, backup, runs, errors, totalRestored, cur, runLimit, confirmed, trace >>

Traced(outcome, row) ==
  trace \cup {[run |-> runs, t |-> table, idx |-> bi + ri, outcome |-> outcome, row |-> row,
               written |-> IF row = Null THEN EmptyRec ELSE cur.cleanRecord]}

\* a failure that is thrown past the loops instead of `continue`
RecordFailed_Aborting(outcome) ==
  /\ tableErrors' = tableErrors + 1
  /\ ri' = ri + 1
  /\ pc' = "summary"
  /\ cur' = NoCur
  /\ trace' = Traced(outcome, Null)
  /\ UNCHANGED << successfulInserts, idMappings >>

\* `continue` of the record loop after a failure (tableErrors++)
RecordFailed(outcome) ==
  /\ tableErrors' = tableErrors + 1
  /\ ri' = ri + 1
  /\ pc' = "record"
  /\ cur' = NoCur
  /\ trace' = Traced(outcome, Null)
  /\ UNCHANGED << successfulInserts, idMappings >>

\* RecordRestored without the entry in the ID map
RecordRestored_NoMapping(outcome, newId) ==
  /\ successfulInserts' = successfulInserts + 1
  /\ ri' = ri + 1
  /\ pc' = "record"
  /\ cur' = NoCur
  /\ trace' = Traced(outcome, newId)
  /\ UNCHANGED << tableErrors, idMappings >>

\* lines 382-387: the write succeeded and gave the row id newId
RecordRestored(outcome, newId) ==
  /\ idMappings' =
       IF Truthy(cur.oldId)
       THEN [idMappings EXCEPT ![table] = Merge(@, [o \in {cur.oldId} |-> newId])]
       ELSE idMappings
  /\ successfulInserts' = successfulInserts + 1
  /\ ri' = ri + 1
  /\ pc' = "record"
  /\ cur' = NoCur
  /\ trace' = Traced(outcome, newId)
  /\ UNCHANGED tableErrors

\* lines 211-301: one record is cleaned and its required foreign keys mapped
ProcessRecord ==
  /\ UNCHANGED << refVars, session, calls, formVars, exportVars, dialogVars, txnVars >>
  /\ pc = "record" /\ ri <= Len(batch)
  /\ LET cleanRecord == CleanRecord(table, record, idMappings)
         req == MapRequiredFks(cleanRecord, tablesWithRequiredForeignKeys(table), 1, idMappings)
     IN IF DOMAIN cleanRecord = {}
        THEN /\ ri' = ri + 1
             /\ trace' = Traced("empty", Null)
             /\ UNCHANGED << pc, cur, tableErrors, successfulInserts, idMappings >>
        ELSE IF req.skipRecord
        THEN RecordFailed("skipped")
        ELSE /\ cur' = [oldId |-> Get(record, "id"), cleanRecord |-> req.cleanRecord,
                        existing |-> Null]
             /\ pc' = IF uniqueField(table) # "" /\ Truthy(Get(req.cleanRecord, uniqueField(table)))
                      THEN "find" ELSE "insert"
             /\ UNCHANGED << ri, tableErrors, successfulInserts, idMappings, trace >>
  /\ UNCHANGED << dsVars, uiVars, backup, runs, ti, bi, errors, restoredCounts, totalRestored,
                  runLimit, confirmed >>

\* FindAnswer that never reports a row
FindAnswer_None(t, field, value) == Null

\* maybeSingle(): the row when exactly one matches, an error when several do
FindAnswer(t, field, value) ==
  LET m == Matching(t, field, value)
  IN IF Cardinality(m) = 1 THEN CHOOSE id \in m : TRUE ELSE Null

\* lines 306-312: find by natural key
Find ==
  /\ UNCHANGED << refVars, session, calls, formVars, exportVars, dialogVars, txnVars >>
  /\ pc = "find"
  /\ \/ /\ MayFail
        /\ faults' = faults + 1
        /\ pc' = "insert"
        /\ UNCHANGED cur
     \/ LET existing == FindAnswer(table, uniqueField(table), cur.cleanRecord[uniqueField(table)])
        IN /\ cur' = [cur EXCEPT !.existing = existing]
           /\ pc' = IF existing # Null THEN "update" ELSE "insert"
           /\ UNCHANGED faults
  /\ UNCHANGED << store, nextId, seeded, uiVars, runVars, backup, runs, ti, bi, ri, tableErrors,
                  successfulInserts, runLimit, confirmed, trace >>

\* lines 313-323: update of the existing row
Update ==
  /\ UNCHANGED << refVars, session, calls, formVars, exportVars, dialogVars, txnVars >>
  /\ pc = "update"
  /\ \/ /\ MayFail
        /\ faults' = faults + 1
        /\ RecordFailed("failed")
        /\ UNCHANGED store
     \/ /\ store' = [store EXCEPT ![table][cur.existing] = Merge(@, cur.cleanRecord)]
        /\ RecordRestored("updated", cur.existing)
        /\ UNCHANGED faults
  /\ UNCHANGED << nextId, seeded, uiVars, backup, runs, ti, bi, errors, restoredCounts,
                  totalRestored, runLimit, confirmed >>

\* lines 325-341, 343-380: insert, and what follows from its error
Insert ==
  /\ UNCHANGED << refVars, session, calls, formVars, exportVars, dialogVars, txnVars >>
  /\ pc = "insert"
  /\ \/ /\ MayFail
        /\ faults' = faults + 1
        /\ RecordFailed("failed")
        /\ UNCHANGED << store, nextId >>
     \/ /\ UniqueViolation(table, cur.cleanRecord)
        /\ IF uniqueField(table) # "" /\ Truthy(Get(cur.cleanRecord, uniqueField(table)))
           THEN /\ pc' = "fallbackFind"
                /\ UNCHANGED << cur, ri, tableErrors, successfulInserts, idMappings, trace >>
           ELSE RecordFailed("failed")
        /\ UNCHANGED << store, nextId, faults >>
     \/ /\ ~UniqueViolation(table, cur.cleanRecord)
        /\ store' = [store EXCEPT ![table] = Merge(@, [id \in {Tag("n", nextId)} |-> cur.cleanRecord])]
        /\ nextId' = nextId + 1
        /\ RecordRestored("inserted", Tag("n", nextId))
        /\ UNCHANGED faults
  /\ UNCHANGED << seeded, uiVars, backup, runs, ti, bi, errors, restoredCounts, totalRestored,
                  runLimit, confirmed >>

\* a unique violation that is counted as an error without the second find
FallbackFind_GivingUp ==
  /\ UNCHANGED << refVars, session, calls, formVars, exportVars, dialogVars, txnVars >>
  /\ pc = "fallbackFind"
  /\ RecordFailed("failed")
  /\ UNCHANGED << dsVars, uiVars, backup, runs, ti, bi, errors, restoredCounts, totalRestored,
                  runLimit, confirmed >>

\* lines 347-354: after a unique violation, find by natural key again
FallbackFind ==
  /\ UNCHANGED << refVars, session, calls, formVars, exportVars, dialogVars, txnVars >>
  /\ pc = "fallbackFind"
  /\ \/ /\ MayFail
        /\ faults' = faults + 1
        /\ RecordFailed("failed")
     \/ LET existing == FindAnswer(table, uniqueField(table), cur.cleanRecord[uniqueField(table)])
        IN /\ IF existing # Null
              THEN /\ cur' = [cur EXCEPT !.existing = existing]
                   /\ pc' = "fallbackUpdate"
                   /\ UNCHANGED << ri, tableErrors, successfulInserts, idMappings, trace >>
              ELSE RecordFailed("failed")
           /\ UNCHANGED faults
  /\ UNCHANGED << store, nextId, seeded, uiVars, backup, runs, ti, bi, errors, restoredCounts,
                  totalRestored, runLimit, confirmed >>

\* lines 355-365: update of the row found after the unique violation
FallbackUpdate ==
  /\ UNCHANGED << refVars, session, calls, formVars, exportVars, dialogVars, txnVars >>
  /\ pc = "fallbackUpdate"
  /\ \/ /\ MayFail
        /\ faults' = faults + 1
        /\ RecordFailed("failed")
        /\ UNCHANGED store
     \/ /\ store' = [store EXCEPT ![table][cur.existing] = Merge(@, cur.cleanRecord)]
        /\ RecordRestored("updated", cur.existing)
        /\ UNCHANGED faults
  /\ UNCHANGED << nextId, seeded, uiVars, backup, runs, ti, bi, errors, restoredCounts,
                  totalRestored, runLimit, confirmed >>

\* lines 394-415: end of a batch
BatchEnd ==
  /\ UNCHANGED << refVars, session, calls, formVars, exportVars, dialogVars, txnVars >>
  /\ pc = "record" /\ ri > Len(batch)
  /\ errors' =
       IF tableErrors > 0 /\ successfulInserts = 0
       THEN Append(errors, [table |-> table, count |-> Len(batch)])
       ELSE IF tableErrors > 0
       THEN Append(errors, [table |-> table, count |-> tableErrors])
       ELSE errors
  /\ restoredCounts' = [restoredCounts EXCEPT ![table] = @ + successfulInserts]
  /\ totalRestored' = totalRestored + successfulInserts
  /\ IF bi + batchSize < Len(tableData)
     THEN /\ bi' = bi + batchSize
          /\ ri' = 1
          /\ successfulInserts' = 0
          /\ UNCHANGED << pc, ti >>
     ELSE /\ ti' = ti + 1
          /\ pc' = "table"
          /\ UNCHANGED << bi, ri, successfulInserts >>
  /\ UNCHANGED << dsVars, uiVars, backup, runs, tableErrors, idMappings, cur, runLimit, confirmed, trace >>

\* a summary that takes back the rows the run inserted when a record failed
Summary_RollingBack ==
  /\ UNCHANGED << refVars, session, calls, formVars, exportVars, dialogVars, txnVars >>
  /\ pc = "summary"
  /\ IF Len(errors) > 0
     THEN /\ backupStatus' = "error"
          /\ toast' = "restore-errors"
          /\ store' = [t \in TableSet |->
                         Restrict(store[t], (DOMAIN store[t]) \
                                    {e.row : e \in {x \in trace : x.run = runs /\ x.t = t
                                                                    /\ x.outcome = "inserted"}})]
          /\ UNCHANGED reloadScheduled
     ELSE /\ backupStatus' = "success"
          /\ toast' = "restore-success"
          /\ reloadScheduled' = TRUE
          /\ UNCHANGED store
  /\ isRestoring' = FALSE
  /\ pc' = "idle"
  /\ UNCHANGED << nextId, seeded, faults, runVars, backup, runs, ti, bi, ri, tableErrors,
                  successfulInserts, cur, runLimit, confirmed, trace >>

\* a summary that schedules the reload whatever the errors
Summary_Reloading ==
  /\ UNCHANGED << refVars, session, calls, formVars, exportVars, dialogVars, txnVars >>
  /\ pc = "summary"
  /\ IF Len(errors) > 0
     THEN backupStatus' = "error" /\ toast' = "restore-errors"
     ELSE backupStatus' = "success" /\ toast' = "restore-success"
  /\ reloadScheduled' = TRUE
  /\ isRestoring' = FALSE
  /\ pc' = "idle"
  /\ UNCHANGED << dsVars, runVars, backup, runs, ti, bi, ri, tableErrors, successfulInserts,
                  cur, runLimit, confirmed, trace >>

\* lines 425-462: the summary of the run
Summary ==
  /\ UNCHANGED << refVars, session, calls, formVars, exportVars, dialogVars, txnVars >>
  /\ pc = "summary"
  /\ IF Len(errors) > 0
     THEN /\ backupStatus' = "error"
          /\ toast' = "restore-errors"
          /\ UNCHANGED reloadScheduled
     ELSE /\ backupStatus' = "success"
          /\ toast' = "restore-success"
          /\ reloadScheduled' = TRUE
  /\ isRestoring' = FALSE
  /\ pc' = "idle"
  /\ UNCHANGED << dsVars, runVars, backup, runs, ti, bi, ri, tableErrors, successfulInserts,
                  cur, runLimit, confirmed, trace >>

\* lines 447-449: the page reloads, the component state starts anew
Reload ==
  /\ UNCHANGED << refVars, session, calls, formVars, exportVars, dialogVars, txnVars >>
  /\ reloadScheduled /\ pc = "idle"
  /\ reloadScheduled' = FALSE
  /\ backupStatus' = Null
  /\ UNCHANGED << dsVars, runVars, backup, runs, pc, isRestoring, toast, ti, bi, ri,
                  tableErrors, successfulInserts, cur, runLimit, confirmed, trace >>

Next ==
  \/ HandleRestore
  \/ Confirm
  \/ NextTable
  \/ ProcessRecord
  \/ Find
  \/ Update
  \/ Insert
  \/ FallbackFind
  \/ FallbackUpdate
  \/ BatchEnd
  \/ Summary
  \/ Reload

Spec == Init /\ [][Next]_vars

\* the same document restored up to MaxRuns times
InitTwice == InitRestore(Documents(MaxRecords), MaxRuns) /\ failing = {} /\ DialogIdle /\ NoReferenceData /\ TxnIdle

SpecTwice == InitTwice /\ [][Next]_vars

\* the user restores a file of any content
InitAnyFile ==
  /\ InitRestore(Documents(MaxRecords) \cup OtherDocuments \cup LargeDocuments, 1)
  /\ failing = {}
  /\ DialogIdle /\ NoReferenceData /\ TxnIdle

SpecAnyFile == InitAnyFile /\ [][Next]_vars

\* Another client of the DataStore inserts a row with the natural key of the record in
\* work after the find answered and before the insert is sent.
ConcurrentWrite ==
  /\ UNCHANGED << refVars, session, calls, formVars, exportVars, dialogVars, txnVars >>
  /\ pc = "insert" /\ cur.existing = Null
  /\ uniqueField(table) # "" /\ Truthy(Get(cur.cleanRecord, uniqueField(table)))
  /\ ~UniqueViolation(table, cur.cleanRecord)
  /\ store' = [store EXCEPT ![table] =
                 Merge(@, [id \in {Tag("n", nextId)} |->
                             [f \in {uniqueField(table), "notes"} |->
                                IF f = "notes" THEN "theirs" ELSE cur.cleanRecord[f]]])]
  /\ nextId' = nextId + 1
  /\ UNCHANGED << seeded, faults, restoreVars >>

\* a restore while another client writes
NextRace == Next \/ ConcurrentWrite

SpecRace == Init /\ [][NextRace]_vars

\* handleRestore from the confirmation on: every await of the handler settles, so a
\* step of the run that can be taken is taken at last.  Nothing makes the user choose
\* a file or answer the prompt.
RunStep ==
  NextTable \/ ProcessRecord \/ Find \/ Update \/ Insert \/ FallbackFind \/ FallbackUpdate
    \/ BatchEnd \/ Summary

InitLive == InitAnyFile /\ seeded /\ session # Null

SpecLive == InitLive /\ [][Next]_vars /\ WF_vars(RunStep)

(***************************************************************************)
(* createBackup: the export of every collection into one file              *)
(***************************************************************************)
\* what createBackup leaves alone of the state of handleRestore
restoreRunVars ==
  << backup, runs, pc, isRestoring, reloadScheduled, ti, bi, ri, tableErrors, successfulInserts,
     errors, restoredCounts, totalRestored, idMappings, cur, runLimit, confirmed, trace >>

\* lines 60-63: select('*') ordered by created_at: the rows in the order they were
\* created, each with its id
SelectAll(t) ==
  LET created == <<"e1", "e2">> \o [k \in 1..(nextId - 1) |-> Tag("n", k)]
      ids == SelectSeq(created, LAMBDA id : id \in DOMAIN store[t])
  IN [j \in 1..Len(ids) |-> Merge(store[t][ids[j]], [f \in {"id"} |-> ids[j]])]

\* an export that does not ask who is signed in
CreateBackup_Anonymous ==
  /\ UNCHANGED << dsVars, restoreRunVars, refVars, session, calls, formVars, dialogVars, txnVars >>
  /\ bti = 0 /\ ~isBackingUp
  /\ isBackingUp' = TRUE
  /\ backupStatus' = Null
  /\ backupData' = EmptyRec
  /\ bti' = 1
  /\ UNCHANGED << toast, download, failing >>

\* lines 35-55: the button, authentication, the busy flag
CreateBackup ==
  /\ UNCHANGED << dsVars, restoreRunVars, refVars, session, calls, formVars, dialogVars, txnVars >>
  /\ bti = 0 /\ ~isBackingUp
  /\ \E authUser \in {session # Null} :
       IF ~authUser
       THEN /\ toast' = "backup-auth-error"
            /\ UNCHANGED << backupStatus, isBackingUp, backupData, bti >>
       ELSE /\ isBackingUp' = TRUE
            /\ backupStatus' = Null
            /\ backupData' = EmptyRec
            /\ bti' = 1
            /\ UNCHANGED toast
  /\ UNCHANGED << download, failing >>

\* a loop that makes no entry for a collection it could not read
FetchTable_Skipping ==
  /\ UNCHANGED << dsVars, restoreRunVars, refVars, session, calls, formVars, dialogVars, txnVars >>
  /\ bti \in 1..Len(tables)
  /\ LET t == tables[bti]
     IN backupData' = IF t \in failing THEN backupData
                      ELSE Merge(backupData, [c \in {t} |-> SelectAll(t)])
  /\ bti' = bti + 1
  /\ UNCHANGED << backupStatus, toast, isBackingUp, download, failing >>

\* lines 57-81: one round of the loop over `tables`; a select that answers with an
\* error or throws leaves an empty array for its collection
FetchTable ==
  /\ UNCHANGED << dsVars, restoreRunVars, refVars, session, calls, formVars, dialogVars, txnVars >>
  /\ bti \in 1..Len(tables)
  /\ LET t == tables[bti]
     IN backupData' = Merge(backupData, [c \in {t} |-> IF t \in failing THEN << >> ELSE SelectAll(t)])
  /\ bti' = bti + 1
  /\ UNCHANGED << backupStatus, toast, isBackingUp, download, failing >>

\* an export that writes an activity log row when the file is downloaded
FinishBackup_Logging ==
  /\ UNCHANGED << restoreRunVars, refVars, session, calls, formVars, dialogVars, txnVars >>
  /\ bti = Len(tables) + 1
  /\ download' = [version |-> "1.0", created_by_email |-> "a@b", data |-> backupData]
  /\ backupStatus' = "success"
  /\ toast' = "backup-created"
  /\ store' = [store EXCEPT !["activity_logs"] =
                 Merge(@, [id \in {Tag("n", nextId)} |-> [notes |-> "backup"]])]
  /\ nextId' = nextId + 1
  /\ isBackingUp' = FALSE
  /\ bti' = 0
  /\ UNCHANGED << seeded, faults, backupData, failing >>

\* lines 83-112: the file is built and downloaded; anything thrown on the way is
\* answered by the catch block; the busy flag is cleared in either case
FinishBackup ==
  /\ UNCHANGED << dsVars, restoreRunVars, refVars, session, calls, formVars, dialogVars, txnVars >>
  /\ bti = Len(tables) + 1
  /\ \E thrown \in BOOLEAN :
       IF thrown
       THEN /\ backupStatus' = "error"
            /\ toast' = "backup-error"
            /\ UNCHANGED download
       ELSE /\ download' = [version |-> "1.0", created_by_email |-> "a@b", data |-> backupData]
            /\ backupStatus' = "success"
            /\ toast' = "backup-created"
  /\ isBackingUp' = FALSE
  /\ bti' = 0
  /\ UNCHANGED << backupData, failing >>

NextBackup == CreateBackup \/ FetchTable \/ FinishBackup

\* the user exports the DataStore, whichever collections fail to be read
InitBackup ==
  /\ InitRestore({Null}, 0)
  /\ failing \in SUBSET TableSet
  /\ DialogIdle /\ NoReferenceData /\ TxnIdle

SpecBackup == InitBackup /\ [][NextBackup]_vars

(***************************************************************************)
(* createBackup and handleRestore as invocations that may overlap: an      *)
(* invocation is suspended at each await, and the page answers events      *)
(* meanwhile.  The steps of a run between its awaits are the actions       *)
(* above; here each invocation keeps only its position.                    *)
(***************************************************************************)
\* invocations the user starts at most
MaxCalls == 3

Handlers == {"createBackup", "handleRestore"}

\* useState isBackingUp / isRestoring: the flag of a handler
Busy(handler) == IF handler = "createBackup" THEN isBackingUp ELSE isRestoring

\* what an invocation's entry and exit leave alone
callLocals ==
  << backup, runs, pc, reloadScheduled, ti, bi, ri, tableErrors, successfulInserts, errors,
     restoredCounts, totalRestored, idMappings, cur, runLimit, confirmed, trace, backupData, bti,
     download, failing >>

\* the invocation at position k moves to `at`
Moved(k, at) == calls' = [calls EXCEPT ![k].at = at]

\* setIsBackingUp / setIsRestoring
SetBusy(handler, value) ==
  /\ isBackingUp' = IF handler = "createBackup" THEN value ELSE isBackingUp
  /\ isRestoring' = IF handler = "handleRestore" THEN value ELSE isRestoring

\* lines 549-569 and 145-150: the button (disabled={isBackingUp}) is clicked, or a file
\* is chosen in the input (disabled={isRestoring}); the handler runs up to its first
\* await, supabase.auth.getUser()
Invoke ==
  /\ Len(calls) < MaxCalls
  /\ \E handler \in Handlers :
       /\ ~Busy(handler)
       /\ calls' = Append(calls, [handler |-> handler, at |-> "getUser"])
  /\ UNCHANGED << dsVars, refVars, session, formVars, dialogVars, txnVars, callLocals, isBackingUp,
                  isRestoring, toast, backupStatus >>

\* lines 37-45 and 150-158: getUser() settles; without a user the handler returns,
\* with one it sets its flag and goes on to its next await
GetUserSettled ==
  /\ \E k \in DOMAIN calls :
       /\ calls[k].at = "getUser"
       /\ IF session = Null
          THEN /\ Moved(k, "done")
               /\ toast' = IF calls[k].handler = "createBackup" THEN "backup-auth-error"
                           ELSE "auth-error"
               /\ UNCHANGED << isBackingUp, isRestoring, backupStatus >>
          ELSE /\ Moved(k, IF calls[k].handler = "createBackup" THEN "run" ELSE "text")
               /\ SetBusy(calls[k].handler, TRUE)
               /\ backupStatus' = Null
               /\ UNCHANGED toast
  /\ UNCHANGED << dsVars, refVars, session, formVars, dialogVars, txnVars, callLocals >>

\* lines 160-180 and 451-462: file.text() settles; the text is parsed and checked and
\* window.confirm is answered in the same turn: a malformed file ends in catch and
\* finally, a declined prompt clears the flag and returns, an accepted one starts the run
TextSettled ==
  /\ \E k \in DOMAIN calls, answer \in {"malformed", "declined", "accepted"} :
       /\ calls[k].at = "text"
       /\ IF answer = "accepted"
          THEN /\ Moved(k, "run")
               /\ UNCHANGED << isBackingUp, isRestoring, backupStatus, toast >>
          ELSE /\ Moved(k, "done")
               /\ SetBusy("handleRestore", FALSE)
               /\ backupStatus' = IF answer = "malformed" THEN "error" ELSE backupStatus
               /\ toast' = IF answer = "malformed" THEN "restore-error" ELSE toast
  /\ UNCHANGED << dsVars, refVars, session, formVars, dialogVars, txnVars, callLocals >>

\* lines 47-112 and 182-462: the awaits of the run settle one after the other and the
\* run ends: with its summary, or in catch; finally clears the flag
RunSettled ==
  /\ \E k \in DOMAIN calls, thrown \in BOOLEAN :
       /\ calls[k].at = "run"
       /\ Moved(k, "done")
       /\ SetBusy(calls[k].handler, FALSE)
       /\ backupStatus' = IF thrown THEN "error" ELSE "success"
       /\ toast' = IF calls[k].handler = "createBackup"
                   THEN (IF thrown THEN "backup-error" ELSE "backup-created")
                   ELSE (IF thrown THEN "restore-error" ELSE "restore-success")
  /\ UNCHANGED << dsVars, refVars, session, formVars, dialogVars, txnVars, callLocals >>

NextCalls == Invoke \/ GetUserSettled \/ TextSettled \/ RunSettled

InitCalls ==
  InitRestore({Null}, 0) /\ failing = {} /\ DialogIdle /\ NoReferenceData /\ TxnIdle

SpecCalls == InitCalls /\ [][NextCalls]_vars

(***************************************************************************)
(* CSV text and the string functions the parsers use                       *)
(***************************************************************************)
\* A text is a sequence of characters. A run of letters and digits is kept as one
\* word; the delimiters are characters of their own.
Comma == ","
Quote == "\""
Space == " "
Newline == "\n"
Semicolon == ";"
Pipe == "|"

RECURSIVE split(_, _)
\* String.prototype.split(sep): the parts between the separators
split(s, sep) ==
  IF \A k \in 1..Len(s) : s[k] # sep
  THEN << s >>
  ELSE LET k == CHOOSE k \in 1..Len(s) : s[k] = sep /\ \A j \in 1..(k - 1) : s[j] # sep
       IN << SubSeq(s, 1, k - 1) >> \o split(SubSeq(s, k + 1, Len(s)), sep)

RECURSIVE trim(_)
\* String.prototype.trim()
trim(s) ==
  IF s # << >> /\ Head(s) = Space THEN trim(Tail(s))
  ELSE IF s # << >> /\ s[Len(s)] = Space THEN trim(SubSeq(s, 1, Len(s) - 1))
  ELSE s

\* v.replace(/^"|"$/g, ''): one quote at the start and one at the end are removed
stripQuotes(s) ==
  LET a == IF s # << >> /\ Head(s) = Quote THEN Tail(s) ELSE s
  IN IF a # << >> /\ a[Len(a)] = Quote THEN SubSeq(a, 1, Len(a) - 1) ELSE a

RECURSIVE join(_)
\* the characters of a value as one string
join(s) == IF s = << >> THEN "" ELSE Head(s) \o join(Tail(s))

\* the lower-case letter of every upper-case letter
LowerCaseOf ==
  LET upper == "ABCDEFGHIJKLMNOPQRSTUVWXYZ"
      lower == "abcdefghijklmnopqrstuvwxyz"
  IN [c \in {SubSeq(upper, i, i) : i \in 1..26} |->
        LET i == CHOOSE i \in 1..26 : SubSeq(upper, i, i) = c IN SubSeq(lower, i, i)]

RECURSIVE toLowerCase(_)
\* String.prototype.toLowerCase()
toLowerCase(str) ==
  IF str = "" THEN ""
  ELSE LET c == SubSeq(str, 1, 1)
       IN (IF c \in DOMAIN LowerCaseOf THEN LowerCaseOf[c] ELSE c) \o toLowerCase(SubSeq(str, 2, Len(str)))

\* String.prototype.includes(part)
includes(str, part) ==
  \E i \in 1..(Len(str) - Len(part) + 1) : SubSeq(str, i, i + Len(part) - 1) = part

\* parseFloat / parseInt of the numerals of the model; any other string is NaN
Numerals ==
  ("0" :> 0) @@ ("1" :> 1) @@ ("2" :> 2) @@ ("5" :> 5) @@ ("10" :> 10) @@ ("100" :> 100)
    @@ ("-1" :> -1) @@ ("-5" :> -5) @@ ("1000000000" :> 1000000000)
isNaN(str) == str \notin DOMAIN Numerals
parseFloat(str) == Numerals[str]

\* new Date(str): the calendar dates of the model; any other string is an invalid date
invalidDate(str) == str \notin {"2024-01-10", "2024-01-15", "2024-02-01"}
\* date.toISOString().split('T')[0]
toISODate(str) == str
\* new Date(a) < new Date(b), on ISO dates
DateBefore(a, b) ==
  LET order == ("2024-01-10" :> 1) @@ ("2024-01-15" :> 2) @@ ("2024-02-01" :> 3)
  IN order[a] < order[b]

\* lines of the text that are not blank: text.split('\n').filter(line => line.trim())
Lines(text) == SelectSeq(split(text, Newline), LAMBDA line : trim(line) # << >>)

\* lines[0].split(',').map(h => h.trim().toLowerCase())
Headers(line) ==
  LET parts == split(line, Comma)
  IN [i \in 1..Len(parts) |-> toLowerCase(join(trim(parts[i])))]

\* lines[i].split(',').map(v => v.trim().replace(/^"|"$/g, ''))
Values(line) ==
  LET parts == split(line, Comma)
  IN [i \in 1..Len(parts) |-> join(stripQuotes(trim(parts[i])))]

\* headers.findIndex(h => h is one of the names), 1-based; 0 when there is none
findIndex(headers, names) ==
  IF \E i \in 1..Len(headers) : headers[i] \in names
  THEN CHOOSE i \in 1..Len(headers) : headers[i] \in names /\ \A j \in 1..(i - 1) : headers[j] \notin names
  ELSE 0

\* values[index] when index >= 0 and the value is truthy, else ""
ValueAt(values, index) == IF index >= 1 /\ index <= Len(values) THEN values[index] ELSE ""

\* one field more in a candidate
With(r, f, v) == Merge(r, f :> v)

(***************************************************************************)
(* Reference data                                                          *)
(***************************************************************************)
Account(id, name, code, parentId) ==
  [id |-> id, name |-> name, code |-> code, parentId |-> parentId, status |-> "active"]

\* the account lists the parsers are run against
AccountLists ==
  { << Account("a1", "Assets", "1000", Null), Account("a2", "Cash", "1100", "a1"),
       Account("a3", "Bank", "1200", "a1") >>,
    << Account("a1", "Assets", "1000", Null), Account("a2", "Cash", "1100", "a1"),
       Account("a3", "Bank", "1200", "a2") >>,
    << Account("a1", "Assets", "1000", Null), Account("a2", "Cash", "1100", Null),
       Account("a3", "Bank", "", Null) >> }

CustomerList == << [id |-> "c1", name |-> "Acme"] >>
ProductList ==
  << [id |-> "p1", name |-> "Widget", sku |-> "SKU1"], [id |-> "p2", name |-> "Gadget", sku |-> "SKU2"] >>

\* Map.get after forEach(set): the last entry set under the key wins; 0 when there is none
LastOf(hits) == IF hits = {} THEN 0 ELSE CHOOSE i \in hits : \A j \in hits : j <= i

\* accountByName.get(key)
accountByName(accs, key) == LastOf({i \in 1..Len(accs) : toLowerCase(accs[i].name) = key})
\* accountByCode.get(key): only accounts with a code are in the map
accountByCode(accs, key) ==
  LastOf({i \in 1..Len(accs) : Truthy(accs[i].code) /\ toLowerCase(accs[i].code) = key})

\* leafAccountIds with every account taken for a leaf
leafAccountIds_All(accs) == {accs[i].id : i \in 1..Len(accs)}

\* leafAccountIds: the ids that are no key of childrenMap
leafAccountIds(accs) ==
  LET childrenMap == {accs[i].parentId : i \in {j \in 1..Len(accs) : Truthy(accs[j].parentId)}}
  IN {accs[i].id : i \in {j \in 1..Len(accs) : accs[j].id \notin childrenMap}}

(***************************************************************************)
(* ImportTransactionsDialog.parseCSV, TransactionFormDialog.tsx 375-583    *)
(***************************************************************************)
\* getEnumValues('type'), getEnumValues('status')
\* an allowed set that also holds wire
TransactionTypes_WithWire == << "sale", "purchase", "payment", "expense", "transfer", "wire" >>

TransactionTypes == << "sale", "purchase", "payment", "expense", "transfer" >>
TransactionStatuses == << "pending", "posted", "reconciled", "void" >>

InSeq(x, s) == \E i \in 1..Len(s) : s[i] = x

RECURSIVE joinWith(_, _)
\* Array.prototype.join(sep)
joinWith(s, sep) ==
  IF s = << >> THEN "" ELSE IF Len(s) = 1 THEN s[1] ELSE s[1] \o sep \o joinWith(Tail(s), sep)

\* transactionSchema.parse(rowData): the violations as (path, message), in field order.
\* The schema requires date, type, a description of 3 characters and a positive amount.
transactionSchema(rowData) ==
  (IF Has(rowData, "date") THEN << >> ELSE << [path |-> "date", message |-> "Required"] >>)
  \o (IF Has(rowData, "type") THEN << >> ELSE << [path |-> "type", message |-> "Required"] >>)
  \o (IF Has(rowData, "description")
      THEN IF Len(rowData["description"]) >= 3 THEN << >>
           ELSE << [path |-> "description", message |-> "Description must be at least 3 characters"] >>
      ELSE << [path |-> "description", message |-> "Required"] >>)
  \o (IF Has(rowData, "amount") THEN << >> ELSE << [path |-> "amount", message |-> "Required"] >>)

\* lines 451-474 and 481-496: one account cell; the fields it adds and its errors
ResolveAccountCell(accountName, accs, leaves, nameField, idField) ==
  LET byName == accountByName(accs, toLowerCase(accountName))
      account == IF byName # 0 THEN byName ELSE accountByCode(accs, toLowerCase(accountName))
  IN IF accountName = "" THEN [data |-> EmptyRec, errors |-> << >>]
     ELSE IF account = 0
     THEN [data |-> EmptyRec, errors |-> << "Account \"" \o accountName \o "\" not found" >>]
     ELSE IF accs[account].id \notin leaves
     THEN [data |-> EmptyRec,
           errors |-> << "Account \"" \o accountName \o "\" is a parent account and cannot be used" >>]
     ELSE [data |-> (nameField :> accs[account].name) @@ (idField :> accs[account].id), errors |-> << >>]

RECURSIVE AppendSchemaErrors_Every(_, _)
\* a de-duplication that drops a violation when every error of the row includes its path
AppendSchemaErrors_Every(rowErrors, violations) ==
  IF violations = << >> THEN rowErrors
  ELSE LET err == Head(violations)
       IN AppendSchemaErrors_Every(
            IF \A i \in 1..Len(rowErrors) : includes(rowErrors[i], err.path)
            THEN rowErrors
            ELSE Append(rowErrors, err.path \o ": " \o err.message),
            Tail(violations))

RECURSIVE AppendSchemaErrors(_, _)
\* lines 566-570: a violation is added unless an error of the row includes its path
AppendSchemaErrors(rowErrors, violations) ==
  IF violations = << >> THEN rowErrors
  ELSE LET err == Head(violations)
       IN AppendSchemaErrors(
            IF \E i \in 1..Len(rowErrors) : includes(rowErrors[i], err.path)
            THEN rowErrors
            ELSE Append(rowErrors, err.path \o ": " \o err.message),
            Tail(violations))

\* lines 409-580: one data line
ParseTransactionRow(headers, values, accs, i) ==
  LET leaves == leafAccountIds(accs)
      dateStr == ValueAt(values, findIndex(headers, {"date"}))
      d1 == IF dateStr # "" /\ ~invalidDate(dateStr) THEN "date" :> toISODate(dateStr) ELSE EmptyRec
      e1 == (IF dateStr # "" /\ invalidDate(dateStr) THEN << "Invalid date format: " \o dateStr >> ELSE << >>)
            \o (IF Has(d1, "date") THEN << >> ELSE << "Date is required" >>)
      typeStr == toLowerCase(ValueAt(values, findIndex(headers, {"type"})))
      d2 == IF typeStr # "" /\ InSeq(typeStr, TransactionTypes) THEN With(d1, "type", typeStr) ELSE d1
      e2 == e1
            \o (IF typeStr # "" /\ ~InSeq(typeStr, TransactionTypes)
                THEN << "Invalid type. Must be one of: " \o joinWith(TransactionTypes, ", ") >> ELSE << >>)
            \o (IF Has(d2, "type") THEN << >> ELSE << "Type is required" >>)
      desc == ValueAt(values, findIndex(headers, {"description", "desc"}))
      d3 == IF desc # "" THEN With(d2, "description", desc) ELSE d2
      e3 == e2 \o (IF desc = "" \/ Len(desc) < 3
                   THEN << "Description must be at least 3 characters" >> ELSE << >>)
      from == ResolveAccountCell(
                ValueAt(values, findIndex(headers, {"accountfrom", "account_from", "fromaccount", "from_account"})),
                accs, leaves, "accountFrom", "accountFromId")
      d4 == Merge(d3, from.data)
      e4 == e3 \o from.errors
            \o (IF ~Has(d4, "accountFrom") /\ Get(d4, "type") = "transfer"
                THEN << "From Account is required for transfer transactions" >> ELSE << >>)
      to == ResolveAccountCell(
              ValueAt(values, findIndex(headers, {"accountto", "account_to", "toaccount", "to_account"})),
              accs, leaves, "accountTo", "accountToId")
      d5 == Merge(d4, to.data)
      e5 == e4 \o to.errors
            \o (IF ~Has(d5, "accountTo") /\ Get(d5, "type") = "transfer"
                THEN << "To Account is required for transfer transactions" >> ELSE << >>)
            \o (IF /\ Get(d5, "type") = "transfer"
                   /\ Has(d5, "accountFromId") /\ Has(d5, "accountToId")
                   /\ d5["accountFromId"] = d5["accountToId"]
                THEN << "From and To accounts must be different for transfer transactions" >> ELSE << >>)
      amountStr == ValueAt(values, findIndex(headers, {"amount"}))
      amountOk == amountStr # "" /\ ~isNaN(amountStr) /\ parseFloat(amountStr) > 0
                    /\ parseFloat(amountStr) <= 999999999
      d6 == IF amountOk THEN With(d5, "amount", parseFloat(amountStr)) ELSE d5
      e6 == e5
            \o (IF amountStr = "" \/ amountOk THEN << >>
                ELSE IF isNaN(amountStr) \/ parseFloat(amountStr) <= 0
                THEN << "Amount must be a positive number" >>
                ELSE << "Amount is too large (max 999,999,999)" >>)
            \o (IF Has(d6, "amount") THEN << >> ELSE << "Amount is required and must be greater than zero" >>)
      statusStr == toLowerCase(ValueAt(values, findIndex(headers, {"status"})))
      d7 == With(d6, "status", IF statusStr # "" /\ InSeq(statusStr, TransactionStatuses) THEN statusStr ELSE "pending")
      e7 == e6 \o (IF statusStr # "" /\ ~InSeq(statusStr, TransactionStatuses)
                   THEN << "Invalid status. Must be one of: " \o joinWith(TransactionStatuses, ", ") >>
                   ELSE << >>)
      ref == ValueAt(values, findIndex(headers, {"reference", "ref"}))
      d8 == IF ref # "" /\ Len(ref) <= 100 THEN With(d7, "reference", ref) ELSE d7
      e8 == e7 \o (IF Len(ref) > 100 THEN << "Reference must not exceed 100 characters" >> ELSE << >>)
      notes == ValueAt(values, findIndex(headers, {"notes", "note"}))
      d9 == IF notes # "" /\ Len(notes) <= 1000 THEN With(d8, "notes", notes) ELSE d8
      e9 == e8 \o (IF Len(notes) > 1000 THEN << "Notes must not exceed 1000 characters" >> ELSE << >>)
  IN [row |-> i + 1, data |-> d9, errors |-> AppendSchemaErrors(e9, transactionSchema(d9))]

\* the error parseCSV throws for a text without a data line
NoDataRow == "CSV file must have at least a header row and one data row"

\* parseCSV(text): the rows, or the error thrown
ParseTransactionsCSV(text, accs) ==
  LET lines == Lines(text)
      headers == Headers(lines[1])
  IN IF Len(lines) < 2
     THEN [thrown |-> NoDataRow, rows |-> << >>]
     ELSE [thrown |-> Null,
           rows |-> [k \in 1..(Len(lines) - 1) |-> ParseTransactionRow(headers, Values(lines[k + 1]), accs, k)]]

(***************************************************************************)
(* ImportSalesOrdersDialog: parseLineItems and parseCSV, part_002 103-341  *)
(***************************************************************************)
RECURSIVE splitString(_, _)
\* String.prototype.split(sep) on the string of a cell
splitString(str, sep) ==
  IF ~includes(str, sep) THEN << str >>
  ELSE LET k == CHOOSE k \in 1..Len(str) :
                  SubSeq(str, k, k) = sep /\ \A j \in 1..(k - 1) : SubSeq(str, j, j) # sep
       IN << SubSeq(str, 1, k - 1) >> \o splitString(SubSeq(str, k + 1, Len(str)), sep)

RECURSIVE trimString(_)
\* String.prototype.trim() on the string of a cell
trimString(str) ==
  IF str # "" /\ SubSeq(str, 1, 1) = Space THEN trimString(SubSeq(str, 2, Len(str)))
  ELSE IF str # "" /\ SubSeq(str, Len(str), Len(str)) = Space THEN trimString(SubSeq(str, 1, Len(str) - 1))
  ELSE str

SalesStatuses == << "draft", "confirmed", "invoiced", "paid", "cancelled" >>

\* customerByName.get(key)
customerByName(custs, key) == LastOf({i \in 1..Len(custs) : toLowerCase(custs[i].name) = key})
\* productByName.get(key): every product is set under its name and then under its sku
productByName(prods, key) ==
  LastOf({i \in 1..Len(prods) : toLowerCase(prods[i].name) = key \/ toLowerCase(prods[i].sku) = key})

\* lineItemSchema.parse(lineItem): the violations as (path, message).
\* The schema requires a product, a quantity of at least 1, a positive price, no negative discount.
lineItemSchema(lineItem) ==
  (IF lineItem.quantity >= 1 THEN << >> ELSE << [path |-> "quantity", message |-> "Quantity must be at least 1"] >>)
  \o (IF lineItem.unitPrice > 0 THEN << >> ELSE << [path |-> "unitPrice", message |-> "Unit price must be positive"] >>)
  \o (IF lineItem.discount >= 0 THEN << >> ELSE << [path |-> "discount", message |-> "Discount cannot be negative"] >>)

\* salesOrderSchema.parse(rowData): the violations as (path, message).
\* The schema requires an order number, a customer, a date and at least one line item.
salesOrderSchema(rowData) ==
  (IF Has(rowData, "orderNumber") THEN << >> ELSE << [path |-> "orderNumber", message |-> "Required"] >>)
  \o (IF Has(rowData, "customerId") THEN << >> ELSE << [path |-> "customerId", message |-> "Required"] >>)
  \o (IF Has(rowData, "date") THEN << >> ELSE << [path |-> "date", message |-> "Required"] >>)
  \o (IF Has(rowData, "lineItems")
      THEN IF rowData["lineItems"] # << >> THEN << >>
           ELSE << [path |-> "lineItems", message |-> "At least one line item is required"] >>
      ELSE << [path |-> "lineItems", message |-> "Required"] >>)

\* lines 116-181: the rest of the loop body for itemStrings[i], given its parts and the
\* product productByName holds for the first part; now is Date.now()
LineItemOf(parts, product, i, prods, now) ==
  LET label == "Line item " \o ToString(i + 1) \o ": "
      productName == parts[1]
      qtyStr == parts[2]
      priceStr == parts[3]
      discountStr == IF Len(parts) >= 4 THEN parts[4] ELSE "0"
      discount == IF isNaN(discountStr) THEN 0 ELSE parseFloat(discountStr)
      lineItem == [id |-> ToString(i) \o "-" \o ToString(now),
                   productId |-> prods[product].id,
                   productName |-> prods[product].name,
                   sku |-> prods[product].sku,
                   quantity |-> parseFloat(qtyStr),
                   unitPrice |-> parseFloat(priceStr),
                   discount |-> discount,
                   tax |-> 0,
                   total |-> LET total == parseFloat(qtyStr) * parseFloat(priceStr) - discount
                             IN IF total < 0 THEN 0 ELSE total]
      fail(msg) == [items |-> << >>, errors |-> << label \o msg >>]
      checked(violations) ==
        IF violations = << >>
        THEN [items |-> << lineItem >>, errors |-> << >>]
        ELSE [items |-> << >>,
              errors |-> [k \in 1..Len(violations) |->
                            label \o violations[k].path \o " - " \o violations[k].message]]
  IN IF Len(parts) < 3 THEN fail("Invalid format. Expected: productName|quantity|unitPrice|discount")
     ELSE IF productName = "" THEN fail("Product name is required")
     ELSE IF product = 0 THEN fail("Product \"" \o productName \o "\" not found")
     ELSE IF isNaN(qtyStr) \/ parseFloat(qtyStr) <= 0 THEN fail("Quantity must be a positive integer")
     ELSE IF isNaN(priceStr) \/ parseFloat(priceStr) <= 0 THEN fail("Unit price must be a positive number")
     ELSE IF discount < 0 THEN fail("Discount cannot be negative")
     ELSE checked(lineItemSchema(lineItem))

\* lines 113-181: the body of the loop for itemStrings[i]
ParseLineItem(itemString, i, prods, now) ==
  LET lookup(parts) ==
        LineItemOf(parts, IF Len(parts) >= 1 THEN productByName(prods, toLowerCase(parts[1])) ELSE 0,
                   i, prods, now)
      trimmed(raw) == lookup([k \in 1..Len(raw) |-> trimString(raw[k])])
  IN trimmed(splitString(itemString, Pipe))

\* items and errors of one item followed by those of the items after it
Collected(one, rest) == [items |-> one.items \o rest.items, errors |-> one.errors \o rest.errors]

RECURSIVE ParseLineItemsFrom(_, _, _, _)
\* the loop of lines 112-181 from index i on
ParseLineItemsFrom(itemStrings, i, prods, now) ==
  IF i >= Len(itemStrings) THEN [items |-> << >>, errors |-> << >>]
  ELSE Collected(ParseLineItem(itemStrings[i + 1], i, prods, now),
                 ParseLineItemsFrom(itemStrings, i + 1, prods, now))

\* lines 107-110 and 183-184: what parseLineItems returns, given the outcome of its loop
LineItemsResult(lineItemsStr, parsed) ==
  IF trimString(lineItemsStr) = ""
  THEN [items |-> << >>, errors |-> << "At least one line item is required" >>]
  ELSE IF parsed.items = << >> /\ parsed.errors = << >>
  THEN [items |-> << >>, errors |-> << "At least one valid line item is required" >>]
  ELSE parsed

\* parseLineItems, lines 103-185
parseLineItems(lineItemsStr, prods, now) ==
  LineItemsResult(
    lineItemsStr,
    ParseLineItemsFrom(SelectSeq(splitString(lineItemsStr, Semicolon), LAMBDA str : trimString(str) # ""),
                       0, prods, now))

RECURSIVE Sum(_)
\* reduce((sum, term) => sum + term, 0)
Sum(terms) == IF terms = << >> THEN 0 ELSE Head(terms) + Sum(Tail(terms))

RECURSIVE AppendSalesSchemaErrors(_, _)
\* lines 324-329: a violation is added unless an error of the row includes its message
AppendSalesSchemaErrors(rowErrors, violations) ==
  IF violations = << >> THEN rowErrors
  ELSE LET errorMsg == Head(violations).path \o ": " \o Head(violations).message
       IN AppendSalesSchemaErrors(
            IF \E i \in 1..Len(rowErrors) : includes(rowErrors[i], errorMsg)
            THEN rowErrors ELSE Append(rowErrors, errorMsg),
            Tail(violations))

\* rowData and rowErrors as a section of the loop body leaves them
RowSoFar(rowData, rowErrors) == [data |-> rowData, errors |-> rowErrors]

\* lines 201-208
OrderNumberSection(orderNumber) ==
  RowSoFar(IF orderNumber # "" THEN "orderNumber" :> orderNumber ELSE EmptyRec,
           IF orderNumber = "" \/ trimString(orderNumber) = "" THEN << "Order number is required" >> ELSE << >>)

\* lines 210-224; customer is what customerByName holds for the cell
CustomerSection(so, customerName, customer, custs) ==
  RowSoFar(IF customerName # "" /\ customer # 0
           THEN Merge(so.data, ("customerId" :> custs[customer].id) @@ ("customerName" :> custs[customer].name))
           ELSE so.data,
           so.errors
           \o (IF customerName # "" /\ customer = 0
               THEN << "Customer \"" \o customerName \o "\" not found" >> ELSE << >>)
           \o (IF customerName # "" /\ customer # 0 THEN << >> ELSE << "Customer is required" >>))

\* lines 226-241
DateSection(so, dateStr) ==
  RowSoFar(IF dateStr # "" /\ ~invalidDate(dateStr) THEN With(so.data, "date", toISODate(dateStr)) ELSE so.data,
           so.errors
           \o (IF dateStr # "" /\ invalidDate(dateStr) THEN << "Invalid date format: " \o dateStr >> ELSE << >>)
           \o (IF dateStr # "" /\ ~invalidDate(dateStr) THEN << >> ELSE << "Order date is required" >>))

\* lines 243-266
DueDateSection(so, dueStr) ==
  LET rowData == IF dueStr # "" /\ ~invalidDate(dueStr) THEN With(so.data, "dueDate", toISODate(dueStr))
                 ELSE IF Has(so.data, "date") THEN With(so.data, "dueDate", so.data["date"])
                 ELSE so.data
  IN RowSoFar(rowData,
              so.errors
              \o (IF dueStr # "" /\ invalidDate(dueStr) THEN << "Invalid due date format: " \o dueStr >> ELSE << >>)
              \o (IF Has(rowData, "date") /\ Has(rowData, "dueDate")
                     /\ DateBefore(rowData["dueDate"], rowData["date"])
                  THEN << "Due date must be on or after the order date" >> ELSE << >>))

\* lines 268-281
StatusSection(so, statusStr) ==
  RowSoFar(With(so.data, "status", IF statusStr # "" /\ InSeq(statusStr, SalesStatuses) THEN statusStr ELSE "draft"),
           so.errors \o (IF statusStr # "" /\ ~InSeq(statusStr, SalesStatuses)
                         THEN << "Invalid status. Must be one of: " \o joinWith(SalesStatuses, ", ") >>
                         ELSE << >>))

\* lines 283-292; parsed is what parseLineItems returns for the cell
LineItemsSection(so, itemsStr, parsed) ==
  RowSoFar(IF itemsStr # "" THEN With(so.data, "lineItems", parsed.items) ELSE so.data,
           so.errors \o (IF itemsStr # "" THEN parsed.errors ELSE << >>)
                     \o (IF itemsStr # "" /\ parsed.items # << >> THEN << >>
                         ELSE << "At least one line item is required" >>))

\* totals whose total is the subtotal less the discounts
TotalsSection_Unclamped(so) ==
  LET items == IF Has(so.data, "lineItems") THEN so.data["lineItems"] ELSE << >>
      subtotal == Sum([k \in 1..Len(items) |-> items[k].quantity * items[k].unitPrice])
      discountAmount == Sum([k \in 1..Len(items) |-> items[k].discount])
  IN RowSoFar(IF items = << >> THEN so.data
              ELSE Merge(so.data,
                         ("subtotal" :> subtotal) @@ ("discountAmount" :> discountAmount)
                         @@ ("taxAmount" :> 0) @@ ("total" :> subtotal - discountAmount)
                         @@ ("paidAmount" :> 0) @@ ("balance" :> subtotal - discountAmount)),
              so.errors)

\* lines 294-306
TotalsSection(so) ==
  LET items == IF Has(so.data, "lineItems") THEN so.data["lineItems"] ELSE << >>
      total == Sum([k \in 1..Len(items) |-> items[k].total])
  IN RowSoFar(IF items = << >> THEN so.data
              ELSE Merge(so.data,
                         ("subtotal" :> Sum([k \in 1..Len(items) |-> items[k].quantity * items[k].unitPrice]))
                         @@ ("discountAmount" :> Sum([k \in 1..Len(items) |-> items[k].discount]))
                         @@ ("taxAmount" :> 0) @@ ("total" :> total) @@ ("paidAmount" :> 0)
                         @@ ("balance" :> total)),
              so.errors)

\* lines 308-317
NotesSection(so, notes) ==
  RowSoFar(IF notes # "" /\ Len(notes) <= 1000 THEN With(so.data, "notes", notes) ELSE so.data,
           so.errors \o (IF Len(notes) > 1000 THEN << "Notes must not exceed 1000 characters" >> ELSE << >>))

\* lines 319-339: the schema, and the row pushed
SchemaSection(so, i) ==
  [row |-> i + 1, data |-> so.data, errors |-> AppendSalesSchemaErrors(so.errors, salesOrderSchema(so.data))]

\* the cell of the first of the columns named, "" when there is none
Cell(headers, values, names) == ValueAt(values, findIndex(headers, names))

\* lines 196-339: one data line
ParseSalesOrderRow(headers, values, custs, prods, i, now) ==
  LET customerName == Cell(headers, values, {"customername", "customer_name", "customer"})
      itemsStr == Cell(headers, values, {"lineitems", "line_items", "items"})
  IN SchemaSection(
       NotesSection(
         TotalsSection(
           LineItemsSection(
             StatusSection(
               DueDateSection(
                 DateSection(
                   CustomerSection(
                     OrderNumberSection(Cell(headers, values, {"ordernumber", "order_number", "orderno"})),
                     customerName, customerByName(custs, toLowerCase(customerName)), custs),
                   Cell(headers, values, {"date", "orderdate", "order_date"})),
                 Cell(headers, values, {"duedate", "due_date"})),
               toLowerCase(Cell(headers, values, {"status"}))),
             itemsStr, parseLineItems(itemsStr, prods, now))),
         Cell(headers, values, {"notes", "note"})),
       i)

\* parseCSV(text) of the sales-orders dialog: the rows, or the error thrown
ParseSalesOrdersCSV(text, custs, prods, now) ==
  LET lines == Lines(text)
      headers == Headers(lines[1])
  IN IF Len(lines) < 2
     THEN [thrown |-> NoDataRow, rows |-> << >>]
     ELSE [thrown |-> Null,
           rows |-> [k \in 1..(Len(lines) - 1) |->
                       ParseSalesOrderRow(headers, Values(lines[k + 1]), custs, prods, k, now)]]

(***************************************************************************)
(* The CSV files the user can choose                                       *)
(***************************************************************************)
\* cells joined by the delimiter
RECURSIVE RenderLine(_)
RenderLine(cells) ==
  IF Len(cells) = 1 THEN cells[1] ELSE cells[1] \o << Comma >> \o RenderLine(Tail(cells))

\* header and data lines joined by newlines
RECURSIVE RenderText(_)
RenderText(lines) ==
  IF Len(lines) = 1 THEN lines[1] ELSE lines[1] \o << Newline >> \o RenderText(Tail(lines))

\* the row with cell c replaced
Subst(row, c, cell) == [row EXCEPT ![c] = cell]

\* data rows: up to n rows, the last one of `rich` or `plain`, the ones before it of `plain`
RowSeqs(rich, plain, n) ==
  UNION {{rows \in [1..len -> rich \cup plain] : \A k \in 1..(len - 1) : rows[k] \in plain}
         : len \in 1..n}

TransactionHeaders ==
  { << "date", Comma, "type", Comma, "description", Comma, "accountFrom", Comma, "accountTo",
       Comma, "amount", Comma, "status" >>,
    << "Date", Comma, Space, "Type", Comma, "desc", Comma, "from_account", Comma, "to_account",
       Comma, "Amount" >> }

\* date, type, description, accountFrom, accountTo, amount, status
TransactionBaseRow ==
  << << "2024-01-15" >>, << "sale" >>, << "Rent", Space, "paid" >>, << "Cash" >>, << "Bank" >>,
     << "100" >>, << >> >>

TransactionPlainRows == {TransactionBaseRow, Subst(TransactionBaseRow, 6, << "abc" >>)}

TransactionRichRows ==
  {Subst(TransactionBaseRow, 4, from) :
     from \in {<< "CASH" >>, << Space, "Cash", Space >>, << "1100" >>, << "Assets" >>, << "1000" >>,
               << "Nope" >>, << >>}}
  \cup {Subst(TransactionBaseRow, 5, to) : to \in {<< "Cash" >>, << "Assets" >>, << "assets" >>, << >>}}
  \cup {Subst(Subst(Subst(TransactionBaseRow, 2, << "Transfer" >>), 4, from), 5, to) :
          from \in {<< "Cash" >>, << "Assets" >>, << >>}, to \in {<< "Bank" >>, << "1100" >>, << >>}}
  \cup {Subst(TransactionBaseRow, 1, cell) : cell \in {<< "notadate" >>, << >>}}
  \cup {Subst(TransactionBaseRow, 2, cell) : cell \in {<< "wire" >>, << >>}}
  \cup {Subst(TransactionBaseRow, 3, cell) :
          cell \in {<< "ab" >>, << Quote, "Rent", Space, "paid", Quote >>,
                    << Quote, "Rent", Comma, Space, "paid", Quote >>}}
  \cup {Subst(TransactionBaseRow, 6, cell) : cell \in {<< "0" >>, << "-5" >>, << "1000000000" >>, << >>}}
  \cup {Subst(TransactionBaseRow, 7, cell) : cell \in {<< "Posted" >>, << "done" >>}}

SalesOrderHeaders ==
  { << "orderNumber", Comma, "customerName", Comma, "date", Comma, "dueDate", Comma, "status",
       Comma, "lineItems", Comma, "notes" >>,
    << "Order_Number", Comma, Space, "Customer", Comma, "orderDate", Comma, "due_date", Comma,
       "Status", Comma, "items" >> }

\* orderNumber, customerName, date, dueDate, status, lineItems, notes
SalesOrderBaseRow ==
  << << "SO-1" >>, << "Acme" >>, << "2024-01-15" >>, << >>, << >>,
     << "Widget", Pipe, "2", Pipe, "10" >>, << >> >>

SalesOrderPlainRows == {SalesOrderBaseRow, Subst(SalesOrderBaseRow, 2, << "Nope" >>)}

SalesOrderRichRows ==
  {Subst(SalesOrderBaseRow, 1, << >>)}
  \cup {Subst(SalesOrderBaseRow, 2, cell) : cell \in {<< "ACME" >>, << >>}}
  \cup {Subst(SalesOrderBaseRow, 3, cell) : cell \in {<< "notadate" >>, << >>}}
  \cup {Subst(SalesOrderBaseRow, 4, cell) : cell \in {<< "2024-01-10" >>, << "2024-02-01" >>, << "soon" >>}}
  \cup {Subst(SalesOrderBaseRow, 5, cell) : cell \in {<< "Confirmed" >>, << "bogus" >>}}
  \cup {Subst(SalesOrderBaseRow, 6, cell) :
          cell \in {<< >>,
                    << "Widget", Pipe, "2", Pipe, "10", Pipe, "5" >>,
                    << "WIDGET", Pipe, Space, "2", Pipe, "10", Semicolon, "sku2", Pipe, "1", Pipe, "5" >>,
                    << "Widget", Pipe, "2", Pipe, "10", Semicolon, "Nope", Pipe, "1", Pipe, "5" >>,
                    << "Widget", Pipe, "1", Pipe, "5", Pipe, "10" >>,
                    << "Widget", Pipe, "0", Pipe, "10" >>,
                    << "Widget", Pipe, "2", Pipe, "abc" >>,
                    << "Widget", Pipe, "2", Pipe, "10", Pipe, "-1" >>,
                    << "Widget", Pipe, "2" >>,
                    << Pipe, "2", Pipe, "10" >>,
                    << Semicolon >>}}
  \cup {Subst(SalesOrderBaseRow, 7, << "urgent" >>)}

\* the CSV files of a dialog with up to n data rows
CsvFiles(d, n) ==
  LET headers == IF d = "transactions" THEN TransactionHeaders ELSE SalesOrderHeaders
      rich == IF d = "transactions" THEN TransactionRichRows ELSE SalesOrderRichRows
      plain == IF d = "transactions" THEN TransactionPlainRows ELSE SalesOrderPlainRows
  IN {[name |-> "import.csv", text |-> RenderText(<< h >> \o [k \in 1..Len(rows) |-> RenderLine(rows[k])])] :
        h \in headers, rows \in RowSeqs(rich, plain, n)}

\* other files at hand: not a CSV file, a header with blank lines
OtherFiles(d) ==
  LET h == IF d = "transactions"
           THEN << "date", Comma, "type", Comma, "description", Comma, "accountFrom", Comma,
                   "accountTo", Comma, "amount" >>
           ELSE << "orderNumber", Comma, "customerName", Comma, "date", Comma, "dueDate", Comma,
                   "status", Comma, "lineItems" >>
  IN { [name |-> "notes.txt", text |-> h],
       [name |-> "header.csv", text |-> h \o << Newline, Space, Newline >>] }

(***************************************************************************)
(* The import dialogs: ImportTransactionsDialog (TransactionFormDialog.tsx *)
(* 585-651, 677-680, 796-802) and ImportSalesOrdersDialog (part_002        *)
(* 343-409, 435-438, 550-556)                                              *)
(***************************************************************************)
\* String.prototype.endsWith(suffix)
endsWith(str, suffix) ==
  Len(str) >= Len(suffix) /\ SubSeq(str, Len(str) - Len(suffix) + 1, Len(str)) = suffix

\* the word the messages of the dialog use
Noun == IF dialog = "transactions" THEN "transactions" ELSE "sales orders"

\* parseCSV of the mounted dialog, run at time now
parseCSV(text, now) ==
  IF dialog = "transactions"
  THEN ParseTransactionsCSV(text, accounts)
  ELSE ParseSalesOrdersCSV(text, customers, products, now)

\* rows.filter(r => r.errors.length === 0)
validRows(rows) == SelectSeq(rows, LAMBDA r : r.errors = << >>)
\* parsedRows.filter(r => r.errors.length > 0)
invalidRows(rows) == SelectSeq(rows, LAMBDA r : r.errors # << >>)
\* parsedRows.some(r => r.errors.length > 0)
hasErrors(rows) == \E k \in 1..Len(rows) : rows[k].errors # << >>

\* the files the user chooses from
UserFiles == {csvFile} \cup OtherFiles(dialog)

\* the dialog is mounted and shown with the user's file at hand
InitDialog ==
  /\ dialog \in {"transactions", "salesOrders"}
  /\ accounts \in (IF dialog = "transactions" THEN AccountLists ELSE {<< >>})
  /\ customers = (IF dialog = "salesOrders" THEN CustomerList ELSE << >>)
  /\ products = (IF dialog = "salesOrders" THEN ProductList ELSE << >>)
  /\ csvFile \in CsvFiles(dialog, MaxRows)
  /\ open = TRUE /\ file = Null /\ parsedRows = << >>
  /\ isProcessing = FALSE /\ error = Null /\ pending = NoPending
  /\ onImportCalls = << >> /\ parses = {} /\ clock = 0 /\ selections = 0

\* handleFileChange up to the await of selectedFile.text(); the input is disabled while processing
HandleFileChange ==
  /\ open /\ ~isProcessing /\ selections < MaxSelections
  /\ \E selectedFile \in UserFiles :
       IF ~endsWith(selectedFile.name, ".csv")
       THEN /\ error' = "Please select a CSV file"
            /\ UNCHANGED << file, isProcessing, pending >>
       ELSE /\ file' = selectedFile
            /\ error' = Null
            /\ isProcessing' = TRUE
            /\ pending' = [op |-> "text", file |-> selectedFile]
  /\ selections' = selections + 1
  /\ UNCHANGED << dialog, open, parsedRows, onImportCalls, parses, clock, csvFile >>
  /\ UNCHANGED << dsVars, restoreVars, refVars, session, calls, formVars, exportVars, txnVars >>

\* selectedFile.text() settles: parseCSV and the rest of handleFileChange
FileText ==
  /\ pending.op = "text"
  /\ \E read \in {TRUE} \cup (IF MayFail THEN {FALSE} ELSE {}) :
       IF read
       THEN \E parsed \in {parseCSV(pending.file.text, clock)} :
               /\ IF parsed.thrown # Null
                  THEN /\ error' = parsed.thrown
                       /\ parsedRows' = << >>
                       /\ UNCHANGED parses
                  ELSE /\ parsedRows' = parsed.rows
                       /\ error' = IF validRows(parsed.rows) = << >>
                                   THEN "No valid " \o Noun \o " found. Please check your CSV file."
                                   ELSE error
                       /\ parses' = parses \cup {[name |-> pending.file.name, rows |-> parsed.rows]}
               /\ UNCHANGED faults
       ELSE /\ error' = "Error processing CSV file"
            /\ parsedRows' = << >>
            /\ faults' = faults + 1
            /\ UNCHANGED parses
  /\ isProcessing' = FALSE
  /\ pending' = NoPending
  /\ UNCHANGED << dialog, open, file, onImportCalls, clock, selections, csvFile >>
  /\ UNCHANGED << store, nextId, seeded, restoreVars, refVars, session, calls, formVars, exportVars, txnVars >>

\* time passes while the file is read
Tick ==
  /\ pending.op = "text" /\ clock < MaxClock
  /\ clock' = clock + 1
  /\ UNCHANGED << dialog, open, file, parsedRows, isProcessing, error, pending, onImportCalls,
                  parses, selections, csvFile >>
  /\ UNCHANGED << dsVars, restoreVars, refVars, session, calls, formVars, exportVars, txnVars >>

\* the Import button is disabled
ImportDisabled == Len(parsedRows) = 0 \/ Len(invalidRows(parsedRows)) > 0 \/ isProcessing

\* handleImport that commits the valid rows of any batch
HandleImport_ValidOnly ==
  /\ open /\ ~isProcessing /\ validRows(parsedRows) # << >>
  /\ isProcessing' = TRUE
  /\ error' = Null
  /\ pending' = [op |-> "import"]
  /\ onImportCalls' = Append(onImportCalls, [k \in 1..Len(validRows(parsedRows)) |-> validRows(parsedRows)[k].data])
  /\ UNCHANGED << dialog, open, file, parsedRows, parses, clock, selections, csvFile >>
  /\ UNCHANGED << dsVars, restoreVars, refVars, session, calls, formVars, exportVars, txnVars >>

\* a click on Import: handleImport up to the await of onImport(...)
HandleImport ==
  /\ open /\ ~ImportDisabled
  /\ mutations < mutationLimit
  /\ IF validRows(parsedRows) = << >>
     THEN /\ error' = "No valid " \o Noun \o " to import"
          /\ UNCHANGED << isProcessing, pending, onImportCalls >>
     ELSE IF hasErrors(parsedRows)
     THEN /\ error' = "Please fix all errors before importing. All rows must be valid."
          /\ UNCHANGED << isProcessing, pending, onImportCalls >>
     ELSE /\ isProcessing' = TRUE
          /\ error' = Null
          /\ pending' = [op |-> "import"]
          /\ onImportCalls' =
               Append(onImportCalls, [k \in 1..Len(validRows(parsedRows)) |-> validRows(parsedRows)[k].data])
  /\ UNCHANGED << dialog, open, file, parsedRows, parses, clock, selections, csvFile >>
  /\ UNCHANGED << dsVars, restoreVars, refVars, session, calls, formVars, exportVars, txnVars >>

\* onImport(...) settles: the rest of handleImport
OnImportSettled ==
  /\ pending.op = "import"
  /\ \E done \in {TRUE} \cup (IF MayFail THEN {FALSE} ELSE {}) :
       IF done
       THEN /\ file' = Null
            /\ parsedRows' = << >>
            /\ open' = FALSE
            /\ UNCHANGED << error, faults >>
       ELSE /\ error' = "Error importing " \o Noun
            /\ faults' = faults + 1
            /\ UNCHANGED << file, parsedRows, open >>
  /\ isProcessing' = FALSE
  /\ pending' = NoPending
  /\ UNCHANGED << dialog, onImportCalls, parses, clock, selections, csvFile >>
  /\ UNCHANGED << store, nextId, seeded, restoreVars, refVars, session, calls, formVars, exportVars, txnVars >>

\* handleClose: Cancel, or the dialog asks to close
HandleClose ==
  /\ open /\ ~isProcessing
  /\ file' = Null
  /\ parsedRows' = << >>
  /\ error' = Null
  /\ open' = FALSE
  /\ UNCHANGED << dialog, isProcessing, pending, onImportCalls, parses, clock, selections, csvFile >>
  /\ UNCHANGED << dsVars, restoreVars, refVars, session, calls, formVars, exportVars, txnVars >>

\* the page opens the dialog again
OpenDialog ==
  /\ dialog # Null /\ ~open /\ selections < MaxSelections
  /\ open' = TRUE
  /\ UNCHANGED << dialog, file, parsedRows, isProcessing, error, pending, onImportCalls, parses,
                  clock, selections, csvFile >>
  /\ UNCHANGED << dsVars, restoreVars, refVars, session, calls, formVars, exportVars, txnVars >>

NextImport ==
  \/ HandleFileChange
  \/ FileText
  \/ Tick
  \/ HandleImport
  \/ OnImportSettled
  \/ HandleClose
  \/ OpenDialog

InitImport == InitRestore({Null}, 0) /\ ~seeded /\ session # Null /\ failing = {} /\ InitDialog /\ TxnIdle

SpecImport == InitImport /\ [][NextImport]_vars


(***************************************************************************)
(* useTransactions: createTransaction (part_001 656-859) and               *)
(* bulkImportTransactions (part_001 1008-1083)                             *)
(***************************************************************************)
\* the accounts collection holding the account list
AccountsTable(accs) ==
  [id \in {accs[i].id : i \in 1..Len(accs)} |->
     LET acc == accs[CHOOSE i \in 1..Len(accs) : accs[i].id = id]
     IN [name |-> acc.name, code |-> acc.code, parent_id |-> acc.parentId]]

\* isUUID(str): the ids of the accounts, and "a9", the id of no account, have the shape
isUUID(str) == str \in {"a1", "a2", "a3", "a9"}

\* the fields every input has
TransactionFields ==
  [date |-> "2024-01-15", type |-> "sale", description |-> "Rent paid", amount |-> 100]

\* one account operand as the caller can give it: pre-resolved id, and id or name
FromForms ==
  {EmptyRec} \cup {"accountFromId" :> id : id \in {"a1", "a2"}}
  \cup {"accountFrom" :> v : v \in {"a1", "a2", "a9", "Assets", "Cash", "Nope"}}
ToForms ==
  {EmptyRec} \cup {"accountToId" :> id : id \in {"a1", "a3"}}
  \cup {"accountTo" :> v : v \in {"a1", "a3", "Assets", "Bank", "Nope"}}

\* the inputs of createTransaction
CreateInputs == {Merge(Merge(TransactionFields, from), to) : from \in FromForms, to \in ToForms}

\* candidates as parseCSV hands them on, and candidates of other callers
BulkFromForms ==
  { EmptyRec,
    ("accountFrom" :> "Cash") @@ ("accountFromId" :> "a2"),
    ("accountFrom" :> "Assets") @@ ("accountFromId" :> "a1"),
    "accountFrom" :> "1000",
    "accountFromId" :> "a1",
    ("accountFrom" :> "Nope") @@ ("accountFromId" :> "a1"),
    ("accountFrom" :> "Nope") @@ ("accountFromId" :> "a2") }
BulkToForms ==
  { EmptyRec,
    ("accountTo" :> "Bank") @@ ("accountToId" :> "a3"),
    ("accountTo" :> "Cash") @@ ("accountToId" :> "a2"),
    "accountTo" :> "assets" }

\* the candidate that is valid against every account list
PlainCandidate ==
  Merge(TransactionFields,
        ("accountFrom" :> "Cash") @@ ("accountFromId" :> "a2") @@ ("status" :> "pending"))

\* the inputs of bulkImportTransactions: up to n candidates, the ones before the last plain
BulkInputs(n) ==
  LET rich == {Merge(Merge([TransactionFields EXCEPT !.type = ty], from), to) :
                 ty \in {"sale", "transfer", "wire"}, from \in BulkFromForms, to \in BulkToForms}
  IN UNION {{batchData \in [1..len -> rich \cup {PlainCandidate}] :
               \A k \in 1..(len - 1) : batchData[k] = PlainCandidate} : len \in 1..n}

\* .from("accounts").select("id").eq(field, value).maybeSingle()
AccountLookup(field, value) ==
  LET ids == IF field = "id" THEN {id \in DOMAIN store["accounts"] : id = value}
             ELSE Matching("accounts", field, value)
  IN IF Cardinality(ids) > 1 THEN [error |-> TRUE, id |-> Null]
     ELSE IF ids = {} THEN [error |-> FALSE, id |-> Null]
     ELSE [error |-> FALSE, id |-> CHOOSE id \in ids : TRUE]

\* .from("accounts").select("id").eq("parent_id", id).limit(1): some child exists
HasChildRow(id) == Matching("accounts", "parent_id", id) # {}

\* lines 683-750 (from) and 763-819 (to): resolving one operand of createTransaction.
\* childrenError: the children query answers with an error, which is only logged;
\* checkedByName: the lookup by name is followed by the children query.
ResolveOperand(givenId, given, childrenError, checkedByName) ==
  IF Truthy(givenId) THEN [id |-> givenId, thrown |-> Null]
  ELSE IF ~Truthy(given) THEN [id |-> Null, thrown |-> Null]
  ELSE LET found == AccountLookup(IF isUUID(given) THEN "id" ELSE "name", given)
           isParent == ~childrenError /\ HasChildRow(found.id)
       IN IF found.error
          THEN [id |-> Null, thrown |-> "Failed to lookup account \"" \o given \o "\""]
          ELSE IF found.id = Null
          THEN [id |-> Null, thrown |-> "Account \"" \o given \o "\" not found"]
          ELSE IF (isUUID(given) \/ checkedByName) /\ isParent
          THEN [id |-> Null,
                thrown |-> "Account \"" \o given
                             \o "\" is a parent account and cannot be used in transactions. Please select a leaf account."]
          ELSE [id |-> IF isUUID(given) THEN given ELSE found.id, thrown |-> Null]

\* createTransaction.mutationFn up to the insert: the row to insert, or the error thrown
CreateTransactionData(transactionData, user, childrenError) ==
  LET from == ResolveOperand(Get(transactionData, "accountFromId"), Get(transactionData, "accountFrom"),
                             childrenError, TRUE)
      to == ResolveOperand(Get(transactionData, "accountToId"), Get(transactionData, "accountTo"),
                           childrenError, FALSE)
      insertData ==
        [date |-> transactionData["date"], type |-> transactionData["type"],
         description |-> transactionData["description"], amount |-> transactionData["amount"],
         reference |-> Get(transactionData, "reference"), notes |-> Get(transactionData, "notes"),
         status |-> IF Truthy(Get(transactionData, "status")) THEN transactionData["status"] ELSE "pending",
         created_by |-> "u1"]
  IN IF ~user THEN [thrown |-> "User not authenticated", insertData |-> EmptyRec]
     ELSE IF from.thrown # Null THEN [thrown |-> from.thrown, insertData |-> EmptyRec]
     ELSE IF to.thrown # Null THEN [thrown |-> to.thrown, insertData |-> EmptyRec]
     ELSE IF Truthy(from.id) /\ Truthy(to.id) /\ from.id = to.id
     THEN [thrown |-> "Cannot create transaction with the same account in both 'from' and 'to' fields",
           insertData |-> EmptyRec]
     ELSE [thrown |-> Null,
           insertData |->
             Merge(insertData,
                   Merge(IF Truthy(from.id) THEN "account_from" :> from.id ELSE EmptyRec,
                         IF Truthy(to.id) THEN "account_to" :> to.id ELSE EmptyRec))]

\* createTransaction.mutate(transactionData)
CreateTransaction ==
  /\ mutations < mutationLimit
  /\ \E transactionData \in CreateInputs, user \in {session # Null},
        childrenError \in {FALSE} \cup (IF MayFail /\ session # Null THEN {TRUE} ELSE {}) :
       LET made == CreateTransactionData(transactionData, user, childrenError)
       IN /\ mutation' = [op |-> "createTransaction", input |-> transactionData, thrown |-> made.thrown]
          /\ faults' = IF childrenError THEN faults + 1 ELSE faults
          /\ IF made.thrown = Null
             THEN /\ store' = [store EXCEPT !["transactions"] = Merge(@, Tag("n", nextId) :> made.insertData)]
                  /\ nextId' = nextId + 1
             ELSE UNCHANGED << store, nextId >>
  /\ mutations' = mutations + 1
  /\ UNCHANGED mutationLimit
  /\ UNCHANGED << seeded, restoreVars, refVars, session, calls, formVars, exportVars, dialogVars >>

\* the accounts as the two fetches of bulkImportTransactions return them
FetchedAccounts ==
  [i \in 1..Len(accounts) |->
     LET row == store["accounts"][accounts[i].id]
     IN [id |-> accounts[i].id, name |-> row.name, code |-> row.code, parentId |-> row.parent_id]]

\* BulkResolve without the comparison of the two accounts of a transfer
BulkResolve_AnyTransfer(txnData, allAccounts, leaves) ==
  LET resolve(name, givenId) ==
        IF ~Truthy(name) THEN Null
        ELSE IF accountByName(allAccounts, toLowerCase(name)) # 0
        THEN allAccounts[accountByName(allAccounts, toLowerCase(name))].id
        ELSE IF accountByCode(allAccounts, toLowerCase(name)) # 0
        THEN allAccounts[accountByCode(allAccounts, toLowerCase(name))].id
        ELSE IF Truthy(givenId) THEN givenId ELSE Null
      accountFromId == resolve(Get(txnData, "accountFrom"), Get(txnData, "accountFromId"))
      accountToId == resolve(Get(txnData, "accountTo"), Get(txnData, "accountToId"))
      parentError(name) == "Account \"" \o name \o "\" is a parent account and cannot be used"
  IN IF Truthy(accountFromId) /\ accountFromId \notin leaves
     THEN [thrown |-> parentError(txnData["accountFrom"]), row |-> EmptyRec]
     ELSE IF Truthy(accountToId) /\ accountToId \notin leaves
     THEN [thrown |-> parentError(txnData["accountTo"]), row |-> EmptyRec]
     ELSE [thrown |-> Null,
           row |-> [date |-> txnData["date"], type |-> txnData["type"],
                    description |-> txnData["description"], amount |-> txnData["amount"],
                    status |-> IF Truthy(Get(txnData, "status")) THEN txnData["status"] ELSE "pending",
                    reference |-> IF Truthy(Get(txnData, "reference")) THEN txnData["reference"] ELSE Null,
                    notes |-> IF Truthy(Get(txnData, "notes")) THEN txnData["notes"] ELSE Null,
                    account_from |-> accountFromId, account_to |-> accountToId, created_by |-> "u1"]]

\* lines 1049-1068: the ids of one candidate, or the error thrown
BulkResolve(txnData, allAccounts, leaves) ==
  LET resolve(name, givenId) ==
        IF ~Truthy(name) THEN Null
        ELSE IF accountByName(allAccounts, toLowerCase(name)) # 0
        THEN allAccounts[accountByName(allAccounts, toLowerCase(name))].id
        ELSE IF accountByCode(allAccounts, toLowerCase(name)) # 0
        THEN allAccounts[accountByCode(allAccounts, toLowerCase(name))].id
        ELSE IF Truthy(givenId) THEN givenId ELSE Null
      accountFromId == resolve(Get(txnData, "accountFrom"), Get(txnData, "accountFromId"))
      accountToId == resolve(Get(txnData, "accountTo"), Get(txnData, "accountToId"))
      parentError(name) == "Account \"" \o name \o "\" is a parent account and cannot be used"
  IN IF Truthy(accountFromId) /\ accountFromId \notin leaves
     THEN [thrown |-> parentError(txnData["accountFrom"]), row |-> EmptyRec]
     ELSE IF Truthy(accountToId) /\ accountToId \notin leaves
     THEN [thrown |-> parentError(txnData["accountTo"]), row |-> EmptyRec]
     ELSE IF txnData["type"] = "transfer" /\ Truthy(accountFromId) /\ accountFromId = accountToId
     THEN [thrown |-> "From and To accounts must be different for transfer transactions", row |-> EmptyRec]
     ELSE [thrown |-> Null,
           row |-> [date |-> txnData["date"], type |-> txnData["type"],
                    description |-> txnData["description"], amount |-> txnData["amount"],
                    status |-> IF Truthy(Get(txnData, "status")) THEN txnData["status"] ELSE "pending",
                    reference |-> IF Truthy(Get(txnData, "reference")) THEN txnData["reference"] ELSE Null,
                    notes |-> IF Truthy(Get(txnData, "notes")) THEN txnData["notes"] ELSE Null,
                    account_from |-> accountFromId, account_to |-> accountToId, created_by |-> "u1"]]

\* transactionSchema.parse(txnData) in bulkImportTransactions: the enumerated type is part
\* of the schema
BulkSchemaViolations(txnData) ==
  transactionSchema(txnData)
  \o (IF InSeq(Get(txnData, "type"), TransactionTypes) THEN << >>
      ELSE << [path |-> "type", message |-> "Invalid enum value"] >>)

\* bulkImportTransactions.mutationFn up to the insert: the rows to insert, or the error thrown.
\* noAccounts, noTree: the first, the second fetch of the accounts answers with no data.
BulkImportData(transactionsData, user, noAccounts, noTree) ==
  LET allAccounts == IF noAccounts THEN << >> ELSE FetchedAccounts
      leaves == IF noTree THEN {} ELSE leafAccountIds(FetchedAccounts)
      invalid == {k \in 1..Len(transactionsData) : BulkSchemaViolations(transactionsData[k]) # << >>}
      resolved == [k \in 1..Len(transactionsData) |-> BulkResolve(transactionsData[k], allAccounts, leaves)]
      thrown == {k \in 1..Len(transactionsData) : resolved[k].thrown # Null}
      first(S) == CHOOSE k \in S : \A j \in S : k <= j
  IN IF ~user THEN [thrown |-> "User not authenticated", insertData |-> << >>]
     ELSE IF invalid # {}
     THEN LET violations == BulkSchemaViolations(transactionsData[first(invalid)])
          IN [thrown |-> "Validation failed: "
                           \o joinWith([k \in 1..Len(violations) |->
                                          violations[k].path \o ": " \o violations[k].message], ", "),
              insertData |-> << >>]
     ELSE IF thrown # {} THEN [thrown |-> resolved[first(thrown)].thrown, insertData |-> << >>]
     ELSE [thrown |-> Null, insertData |-> [k \in 1..Len(transactionsData) |-> resolved[k].row]]

\* bulkImportTransactions.mutate(transactionsData); the DataStore takes all rows or none
BulkImportTransactions ==
  /\ mutations < mutationLimit
  /\ \E transactionsData \in BulkInputs(MaxRows), user \in {session # Null},
        fault \in {"none"} \cup (IF MayFail /\ session # Null
                                 THEN {"noAccounts", "noTree", "insert"} ELSE {}) :
       LET made == BulkImportData(transactionsData, user, fault = "noAccounts", fault = "noTree")
           rejected == made.thrown = Null /\ fault = "insert"
           ids == [k \in 1..Len(made.insertData) |-> Tag("n", nextId + k - 1)]
       IN /\ mutation' = [op |-> "bulkImportTransactions", input |-> transactionsData,
                          thrown |-> IF rejected THEN "insert failed" ELSE made.thrown]
          /\ faults' = IF fault = "none" THEN faults ELSE faults + 1
          /\ IF made.thrown = Null /\ ~rejected
             THEN /\ store' = [store EXCEPT !["transactions"] =
                                 Merge(@, [id \in {ids[k] : k \in 1..Len(ids)} |->
                                             made.insertData[CHOOSE k \in 1..Len(ids) : ids[k] = id]])]
                  /\ nextId' = nextId + Len(made.insertData)
             ELSE UNCHANGED << store, nextId >>
  /\ mutations' = mutations + 1
  /\ UNCHANGED mutationLimit
  /\ UNCHANGED << seeded, restoreVars, refVars, session, calls, formVars, exportVars, dialogVars >>

NextTxn ==
  \/ CreateTransaction
  \/ BulkImportTransactions

\* the accounts are loaded and stored; no restore runs and no dialog is mounted
InitTxn ==
  /\ InitRestoreVars({Null}, 0)
  /\ failing = {}
  /\ accounts \in AccountLists /\ customers = << >> /\ products = << >>
  /\ seeded = FALSE
  /\ store = [EmptyStore EXCEPT !["accounts"] = AccountsTable(accounts)]
  /\ nextId = 1
  /\ faults = 0
  /\ DialogIdle /\ TxnIdle

SpecTxn == InitTxn /\ [][NextTxn]_vars

(***************************************************************************)
(* The transactions dialog with onImport = bulkImportTransactions          *)
(***************************************************************************)
\* prop onImport of the transactions dialog: the page that mounts the dialog passes the
\* bulkImportTransactions the hook returns (part_001 1151: mutateAsync)
onImport == "bulkImportTransactions"

\* a commit that closes the dialog whatever bulkImportTransactions answered
BulkImportSettled_Closing ==
  /\ pending.op = "import" /\ dialog = "transactions"
  /\ \E user \in {session # Null},
        fault \in {"none"} \cup (IF MayFail /\ session # Null
                                 THEN {"noAccounts", "noTree", "insert"} ELSE {}) :
       LET transactionsData == onImportCalls[Len(onImportCalls)]
           made == BulkImportData(transactionsData, user, fault = "noAccounts", fault = "noTree")
           thrown == IF made.thrown = Null /\ fault = "insert" THEN "insert failed" ELSE made.thrown
           ids == [k \in 1..Len(made.insertData) |-> Tag("n", nextId + k - 1)]
       IN /\ mutation' = [op |-> onImport, input |-> transactionsData, thrown |-> thrown]
          /\ faults' = IF fault = "none" THEN faults ELSE faults + 1
          /\ IF thrown = Null
             THEN /\ store' = [store EXCEPT !["transactions"] =
                                 Merge(@, [id \in {ids[k] : k \in 1..Len(ids)} |->
                                             made.insertData[CHOOSE k \in 1..Len(ids) : ids[k] = id]])]
                  /\ nextId' = nextId + Len(made.insertData)
             ELSE UNCHANGED << store, nextId >>
          /\ file' = Null
          /\ parsedRows' = << >>
          /\ open' = FALSE
          /\ UNCHANGED error
  /\ mutations' = mutations + 1
  /\ isProcessing' = FALSE
  /\ pending' = NoPending
  /\ UNCHANGED << dialog, onImportCalls, parses, clock, selections, csvFile, mutationLimit >>
  /\ UNCHANGED << seeded, restoreVars, refVars, session, calls, formVars, exportVars >>

\* TransactionFormDialog.tsx 632-641 with part_001 1008-1106: the awaited onImport is
\* bulkImportTransactions.mutateAsync; it resolves when the batch was inserted and
\* rejects with the error thrown otherwise, and handleImport goes on accordingly
BulkImportSettled ==
  /\ pending.op = "import" /\ dialog = "transactions"
  /\ \E user \in {session # Null},
        fault \in {"none"} \cup (IF MayFail /\ session # Null
                                 THEN {"noAccounts", "noTree", "insert"} ELSE {}) :
       LET transactionsData == onImportCalls[Len(onImportCalls)]
           made == BulkImportData(transactionsData, user, fault = "noAccounts", fault = "noTree")
           thrown == IF made.thrown = Null /\ fault = "insert" THEN "insert failed" ELSE made.thrown
           ids == [k \in 1..Len(made.insertData) |-> Tag("n", nextId + k - 1)]
       IN /\ mutation' = [op |-> onImport, input |-> transactionsData, thrown |-> thrown]
          /\ faults' = IF fault = "none" THEN faults ELSE faults + 1
          /\ IF thrown = Null
             THEN /\ store' = [store EXCEPT !["transactions"] =
                                 Merge(@, [id \in {ids[k] : k \in 1..Len(ids)} |->
                                             made.insertData[CHOOSE k \in 1..Len(ids) : ids[k] = id]])]
                  /\ nextId' = nextId + Len(made.insertData)
                  /\ file' = Null
                  /\ parsedRows' = << >>
                  /\ open' = FALSE
                  /\ UNCHANGED error
             ELSE /\ error' = thrown
                  /\ UNCHANGED << store, nextId, file, parsedRows, open >>
  /\ mutations' = mutations + 1
  /\ isProcessing' = FALSE
  /\ pending' = NoPending
  /\ UNCHANGED << dialog, onImportCalls, parses, clock, selections, csvFile, mutationLimit >>
  /\ UNCHANGED << seeded, restoreVars, refVars, session, calls, formVars, exportVars >>

NextCommit ==
  \/ HandleFileChange
  \/ FileText
  \/ HandleImport
  \/ BulkImportSettled
  \/ HandleClose
  \/ OpenDialog

\* the transactions dialog is open; the accounts it was given were loaded earlier, and
\* the parents of the stored accounts may have changed since
InitCommit ==
  /\ InitRestoreVars({Null}, 0)
  /\ failing = {}
  /\ seeded = FALSE /\ nextId = 1 /\ faults = 0
  /\ InitDialog /\ dialog = "transactions"
  /\ \E stored \in AccountLists : store = [EmptyStore EXCEPT !["accounts"] = AccountsTable(stored)]
  /\ TxnIdle

SpecCommit == InitCommit /\ [][NextCommit]_vars

(***************************************************************************)
(* The two places that check the accounts of a transfer: the parser of the *)
(* transactions dialog and bulkImportTransactions called by any caller     *)
(***************************************************************************)
NextTransfer ==
  \/ HandleFileChange
  \/ FileText
  \/ BulkImportTransactions

\* either the transactions dialog is open and a file is at hand, or the accounts are
\* stored and a caller is about to call the mutation, once
InitTransfer ==
  \/ /\ InitRestore({Null}, 0) /\ ~seeded /\ session # Null /\ failing = {}
     /\ InitDialog /\ dialog = "transactions"
     /\ mutation = [op |-> "none"] /\ mutations = 0 /\ mutationLimit = 0
  \/ /\ InitRestoreVars({Null}, 0)
     /\ failing = {}
     /\ accounts \in AccountLists /\ customers = << >> /\ products = << >>
     /\ seeded = FALSE
     /\ store = [EmptyStore EXCEPT !["accounts"] = AccountsTable(accounts)]
     /\ nextId = 1
     /\ faults = 0
     /\ DialogIdle
     /\ mutation = [op |-> "none"] /\ mutations = 0 /\ mutationLimit = 1

SpecTransfer == InitTransfer /\ [][NextTransfer]_vars

(***************************************************************************)
(* The three operations that ask for the identity, side by side            *)
(***************************************************************************)
\* A document is at hand and no accounts are loaded.  A visitor who is not signed in
\* tries each of the operations (the document is not read then, one stands for all); a
\* signed-in user works on the backup page and calls no mutation.
InitAuth ==
  /\ InitRestore(Documents(1), 1)
  /\ session = Null => backup = CHOOSE d \in Documents(1) : TRUE
  /\ failing = {}
  /\ DialogIdle /\ NoReferenceData
  /\ mutation = [op |-> "none"] /\ mutations = 0
  /\ mutationLimit = IF session = Null THEN MaxMutations ELSE 0

NextAuth == Next \/ NextBackup \/ NextTxn

SpecAuth == InitAuth /\ [][NextAuth]_vars

(***************************************************************************)
(* Claims about restore                                                    *)
(***************************************************************************)
\* the record loop is about to take the next record of the batch
AtRecord == pc = "record" /\ ri <= Len(batch)

\* a required reference of the record is missing, null, or its old id is not
\* in the ID map of the referenced collection
RequiredUnresolved(t, rec, idm) ==
  \E f \in RequiredSet(t) :
    \/ ~Truthy(Get(rec, f))
    \/ referencedTable(f) \notin DOMAIN idm
    \/ rec[f] \notin DOMAIN idm[referencedTable(f)]

\* the record has a field besides id, timestamps and the stripped fields
NonEmptyPayload(t, rec) ==
  (DOMAIN rec) \ ({"id", "created_at", "updated_at"} \cup foreignKeyFields(t)) # {}

\* the rows of the collection in work that the step wrote
Written ==
  {id \in DOMAIN store'[table] : id \notin DOMAIN store[table] \/ store'[table][id] # store[table][id]}

KeyOf(e) == Get(backup.data[e.t][e.idx], UniqueColumn(e.t))

\* an earlier run wrote a row for the same record of the document
RestoredBefore(e) ==
  \E e1 \in trace : e1.run < e.run /\ e1.t = e.t /\ e1.idx = e.idx /\ e1.row # Null

\* C2: restoring the same snapshot again creates no second row for a natural key: no
\* collection holds two rows with the same natural key, and a record with a natural key
\* that an earlier run wrote is, in a later run, never inserted: it is written by an
\* update of the row the earlier run wrote (always so when no DataStore call failed).
C2_NoDuplicates ==
  /\ \A t \in TableSet : \A a \in DOMAIN store[t] : \A b \in DOMAIN store[t] :
       (UniqueColumn(t) # "" /\ a # b /\ Truthy(Get(store[t][a], UniqueColumn(t))))
         => Get(store[t][a], UniqueColumn(t)) # Get(store[t][b], UniqueColumn(t))
  /\ \A e \in trace :
       (Truthy(KeyOf(e)) /\ RestoredBefore(e)) =>
         /\ e.outcome # "inserted"
         /\ e.row # Null =>
              /\ e.outcome = "updated"
              /\ \A e1 \in trace : (e1.t = e.t /\ e1.idx = e.idx /\ e1.row # Null) => e1.row = e.row
              /\ Get(store[e.t][e.row], UniqueColumn(e.t)) = KeyOf(e)
         /\ faults = 0 => e.outcome = "updated"

\* the second run has updated a row that the first run inserted
C2_Witness ==
  \E e \in trace : \E e1 \in trace :
    /\ e.run = 2 /\ e1.run = 1 /\ e1.t = e.t /\ e1.idx = e.idx
    /\ e1.outcome = "inserted" /\ e.outcome = "updated" /\ e.row = e1.row
    /\ Cardinality(DOMAIN store[e.t]) = 1

\* a document as export writes it from a DataStore: every record has columns besides
\* id, timestamps and acting user, and no two records of a collection share a natural key
ExportShaped(doc) ==
  \A t \in TableSet : \A i \in 1..Len(doc.data[t]) :
    /\ NonEmptyPayload(t, doc.data[t][i])
    /\ \A j \in 1..Len(doc.data[t]) :
         (i # j /\ Truthy(Get(doc.data[t][i], UniqueColumn(t))))
           => Get(doc.data[t][i], UniqueColumn(t)) # Get(doc.data[t][j], UniqueColumn(t))

\* the record of the document with the given old id was written in this run
RestoredOld(t, old) ==
  \E e \in trace : e.run = runs /\ e.t = t /\ e.row # Null /\ Get(backup.data[t][e.idx], "id") = old

\* the records of a collection that lack a required reference: the field is missing or
\* null, or the record it names was not restored
DroppedForReference(t) ==
  {i \in 1..Len(backup.data[t]) :
     \E f \in RequiredSet(t) :
       \/ ~Truthy(Get(backup.data[t][i], f))
       \/ ~RestoredOld(referencedTable(f), backup.data[t][i][f])}

\* the records of a collection whose write the DataStore refused in this run
RejectedByStore(t) == {e \in trace : e.run = runs /\ e.t = t /\ e.outcome = "failed"}

\* the run has gone through every collection, the DataStore was empty before it
EndOfRunOnEmptyStore == pc = "summary" /\ ~seeded /\ runs = 1 /\ ExportShaped(backup)

\* C3 as stated: after a restore of an exported snapshot into an empty DataStore every
\* collection holds as many rows as the snapshot has records for it, less the records
\* dropped for a missing required reference.
C3_Original ==
  EndOfRunOnEmptyStore =>
    \A t \in TableSet :
      Cardinality(DOMAIN store[t]) = Len(backup.data[t]) - Cardinality(DroppedForReference(t))

\* C3 amended: ... less the records dropped for a missing required reference and less
\* the records whose insert the DataStore rejected.
C3_RestoredCount ==
  EndOfRunOnEmptyStore =>
    \A t \in TableSet :
      Cardinality(DOMAIN store[t]) =
        Len(backup.data[t]) - Cardinality(DroppedForReference(t)) - Cardinality(RejectedByStore(t))

\* a run into an empty DataStore ended with a record inserted and a record dropped
C3_Witness ==
  /\ EndOfRunOnEmptyStore
  /\ \E t \in TableSet : DroppedForReference(t) # {}
  /\ \E t \in TableSet : Cardinality(DOMAIN store[t]) = 1

\* the optional reference of the record names a record restored earlier in the run
OptionalResolved(f) ==
  /\ Truthy(Get(record, f))
  /\ optionalFkMapping[f] \in DOMAIN idMappings
  /\ record[f] \in DOMAIN idMappings[optionalFkMapping[f]]

\* C6: a record whose optional reference (category_id, supplier_id, parent_id,
\* account_from, account_to) names a record restored earlier in the run is written with
\* that field rewritten to the new id the ID map holds.
C6_OptionalRemapped ==
  [][(store' # store) =>
       \A f \in OptionalRefs(table) : \A id \in Written :
         OptionalResolved(f) =>
           Get(store'[table][id], f) = idMappings[optionalFkMapping[f]][record[f]]]_vars

\* the product in work names a category whose old id the ID map does not hold
DanglingCategory ==
  /\ table = "products"
  /\ Truthy(Get(record, "category_id"))
  /\ ~OptionalResolved("category_id")

\* C7: a product whose category_id names a category that is not in the ID map is not
\* rejected: its row is written with category_id = null, it is counted as restored and no
\* error is counted for it, on the insert path and on the update path.
C7_DanglingCategoryNull ==
  [][/\ (AtRecord /\ DanglingCategory /\ NonEmptyPayload(table, record))
          => (pc' \in {"find", "insert"} /\ tableErrors' = tableErrors)
     /\ (store' # store /\ DanglingCategory)
          => /\ \A id \in Written : Get(store'[table][id], "category_id") = Null
             /\ successfulInserts' = successfulInserts + 1
             /\ tableErrors' = tableErrors]_vars

\* the columns of the record that restore writes as they are
PlainFields(t, rec) ==
  (DOMAIN rec) \ ({"id", "created_at", "updated_at"} \cup foreignKeyFields(t) \cup RequiredSet(t)
                  \cup DOMAIN optionalFkMapping)

\* C8: when the record in work has the natural key of a row the DataStore holds, and the
\* DataStore answers the find and the update, restore updates that row in place with the
\* cleaned payload (the other columns of the row stay), creates no row, counts the record
\* as restored and maps the record's old id to the id of that row; no collection ever
\* holds two rows with one natural key.
C8_UpdateExisting ==
  /\ [](\A t \in TableSet : \A a \in DOMAIN store[t] : \A b \in DOMAIN store[t] :
         (UniqueColumn(t) # "" /\ a # b /\ Truthy(Get(store[t][a], UniqueColumn(t))))
           => Get(store[t][a], UniqueColumn(t)) # Get(store[t][b], UniqueColumn(t)))
  /\ [][/\ (AtRecord /\ UniqueColumn(table) # "" /\ Truthy(Get(record, UniqueColumn(table)))
              /\ ~RequiredUnresolved(table, record, idMappings))
             => pc' = "find"
        /\ (pc = "find" /\ faults' = faults
              /\ Matching(table, UniqueColumn(table), record[UniqueColumn(table)]) # {})
             => /\ pc' = "update"
                /\ cur'.existing \in Matching(table, UniqueColumn(table), record[UniqueColumn(table)])
                /\ store' = store
        /\ (pc = "update" /\ faults' = faults)
             => /\ DOMAIN store'[table] = DOMAIN store[table]
                /\ \A id \in DOMAIN store[table] : id # cur.existing => store'[table][id] = store[table][id]
                /\ \A f \in PlainFields(table, record) : store'[table][cur.existing][f] = record[f]
                /\ \A f \in RequiredSet(table) :
                     store'[table][cur.existing][f] = idMappings[referencedTable(f)][record[f]]
                /\ \A f \in DOMAIN store[table][cur.existing] :
                     f \notin (DOMAIN record) \ foreignKeyFields(table)
                       => store'[table][cur.existing][f] = store[table][cur.existing][f]
                /\ successfulInserts' = successfulInserts + 1
                /\ tableErrors' = tableErrors
                /\ idMappings'[table][record["id"]] = cur.existing]_vars

\* a record with the natural key of a row that was in the DataStore before the run has
\* been restored by an update of that row, and the ID map names the row
C8_Witness ==
  /\ seeded /\ runs = 1 /\ pc = "record"
  /\ \E e \in trace :
       /\ e.outcome = "updated" /\ e.row = "e1" /\ e.t = table
       /\ "o1" \in DOMAIN idMappings[e.t] /\ idMappings[e.t]["o1"] = "e1"
       /\ Get(store[e.t]["e1"], "notes") = "x1"

(***************************************************************************)
(* Claims about the import dialogs                                         *)
(***************************************************************************)
\* the text of the file a parse of the history was run on
TextOf(name) == (CHOOSE f \in UserFiles : f.name = name).text

\* the candidate data of all rows of a batch
BatchData(rows) == [k \in 1..Len(rows) |-> rows[k].data]

\* C4: in both dialogs, while the parsed batch holds a row with a non-empty error list no
\* step calls onImport, whatever files were chosen and whatever was clicked before; every
\* call of onImport passes the candidates of all rows of the parsed batch, none of which
\* has an error, so no subset of the valid rows of a batch is committed.  The parsed batch
\* is always empty or the result of a parse of a chosen file.
C4_NoPartialImport ==
  /\ [](parsedRows = << >> \/ \E p \in parses : p.rows = parsedRows)
  /\ [][/\ (\E k \in 1..Len(parsedRows) : parsedRows[k].errors # << >>)
             => onImportCalls' = onImportCalls
        /\ (onImportCalls' # onImportCalls)
             => /\ parsedRows # << >>
                /\ \A k \in 1..Len(parsedRows) : parsedRows[k].errors = << >>
                /\ onImportCalls' = Append(onImportCalls, BatchData(parsedRows))]_vars

\* a batch with a valid and an invalid row is on display after an earlier batch of the
\* session was chosen, and nothing was passed to onImport
C4_Witness ==
  /\ open /\ ~isProcessing /\ selections = 2
  /\ \E k \in 1..Len(parsedRows) : parsedRows[k].errors = << >>
  /\ \E k \in 1..Len(parsedRows) : parsedRows[k].errors # << >>
  /\ onImportCalls = << >>

\* C5: two parses of the same CSV text against the same reference data give the same
\* parsed rows (row numbers, candidates with their line items, error lists), whenever
\* each of them runs, in the transactions dialog and in the sales-orders dialog.
C5_Deterministic ==
  \A p \in parses : \A q \in parses : p.name = q.name => p.rows = q.rows

\* some account of the list has the account as its parent
HasChildren(id) == \E i \in 1..Len(accounts) : accounts[i].parentId = id

\* the header names of the two account columns
AccountColumn(side) ==
  IF side = "from" THEN {"accountfrom", "account_from", "fromaccount", "from_account"}
  ELSE {"accountto", "account_to", "toaccount", "to_account"}

\* the value of the account cell of data row k of the text
AccountCell(text, k, side) ==
  ValueAt(Values(Lines(text)[k + 1]), findIndex(Headers(Lines(text)[1]), AccountColumn(side)))

\* the account the cell resolves to: by name without regard to case, else by code (0: none)
CellAccount(cell) ==
  IF accountByName(accounts, toLowerCase(cell)) # 0
  THEN accountByName(accounts, toLowerCase(cell))
  ELSE accountByCode(accounts, toLowerCase(cell))

\* the account cell of row k of the parse resolves to an account that has child accounts
NamesParent(p, k, side) ==
  LET cell == AccountCell(TextOf(p.name), k, side)
  IN cell # "" /\ CellAccount(cell) # 0 /\ HasChildren(accounts[CellAccount(cell)].id)

\* C9: in the transactions parser, every row whose accountFrom or accountTo cell resolves
\* (by name without regard to case, else by code) to an account with child accounts has
\* the error 'Account "<cell>" is a parent account and cannot be used', its candidate has
\* neither the id nor the name of that account, and a step that calls onImport is taken
\* with a parsed batch none of whose rows names such an account.
C9_ParentAccountRejected ==
  [][/\ (dialog = "transactions" /\ parses' # parses) =>
          \A p \in parses' \ parses : \A k \in 1..Len(p.rows) : \A side \in {"from", "to"} :
            NamesParent(p, k, side) =>
              /\ InSeq("Account \"" \o AccountCell(TextOf(p.name), k, side)
                         \o "\" is a parent account and cannot be used", p.rows[k].errors)
              /\ ~Has(p.rows[k].data, IF side = "from" THEN "accountFromId" ELSE "accountToId")
              /\ ~Has(p.rows[k].data, IF side = "from" THEN "accountFrom" ELSE "accountTo")
     /\ (dialog = "transactions" /\ onImportCalls' # onImportCalls) =>
          /\ \E p \in parses : p.rows = parsedRows
          /\ \A p \in parses : p.rows = parsedRows =>
               \A k \in 1..Len(p.rows) : \A side \in {"from", "to"} : ~NamesParent(p, k, side)]_vars

\* a parsed batch is on display whose last row names a parent account by its code and
\* whose first row is valid
C9_Witness ==
  /\ dialog = "transactions" /\ open /\ ~isProcessing /\ Len(parsedRows) = 2
  /\ parsedRows[1].errors = << >>
  /\ \E p \in parses :
       /\ p.rows = parsedRows
       /\ NamesParent(p, 2, "from")
       /\ AccountCell(TextOf(p.name), 2, "from") = "1000"

(***************************************************************************)
(* Claims about the write operations of useTransactions                    *)
(***************************************************************************)
\* the operand named by one field of an input of a mutation is an account with children
NamesParentAccount(txnData, f) ==
  /\ Truthy(Get(txnData, f))
  /\ \/ HasChildRow(txnData[f])
     \/ \E id \in Matching("accounts", "name", txnData[f]) : HasChildRow(id)

OperandFields == {"accountFromId", "accountFrom", "accountToId", "accountTo"}

\* the last mutation was given a parent account as an operand
ParentAttempted ==
  /\ mutation.op # "none"
  /\ IF mutation.op = "createTransaction"
     THEN \E f \in OperandFields : NamesParentAccount(mutation.input, f)
     ELSE \E k \in 1..Len(mutation.input) : \E f \in OperandFields :
            NamesParentAccount(mutation.input[k], f)

\* C10: neither createTransaction nor bulkImportTransactions ever inserts a transaction
\* whose account_from or account_to is the id of an account that has child accounts,
\* whichever form the input has (pre-resolved id, id or name in accountFrom/accountTo);
\* a mutation given such an operand ends with an error.
C10_OnlyLeafOperands ==
  /\ \A id \in DOMAIN store["transactions"] : \A f \in {"account_from", "account_to"} :
       Truthy(Get(store["transactions"][id], f)) => ~HasChildRow(store["transactions"][id][f])
  /\ ParentAttempted => mutation.thrown # Null

(***************************************************************************)
(* Claims about the shape of the file, the confirmation and the identity   *)
(***************************************************************************)
\* C11: a document whose top-level data is missing or is not a mapping (null, a scalar,
\* an array) is rejected: the run ends in the step that read the file, before the
\* confirmation prompt, with the error status set and with no DataStore call made.
C11_MalformedRejected ==
  DataKind(backup) # "object" =>
    /\ pc = "idle"
    /\ store = (IF seeded THEN SeededStore ELSE EmptyStore)
    /\ faults = 0
    /\ (runs > 0 /\ toast # "auth-error") => backupStatus = "error"

\* C12: the confirmation comes before any DataStore mutation: the DataStore changes only
\* in steps taken after the user accepted the prompt of the run.  When the user declines,
\* the run ends in that step: nothing is written, no error status or error toast is set,
\* and the busy flag is cleared.
C12_ConfirmationFirst ==
  [][/\ (store' # store \/ nextId' # nextId) => confirmed = "true"
     /\ confirmed' = "false" => /\ store' = store /\ nextId' = nextId /\ faults' = faults
                                /\ pc' = "idle" /\ ~isRestoring'
                                /\ backupStatus' = Null /\ toast' = Null
                                /\ ~reloadScheduled']_vars

\* the user declined the prompt of a run
C12_Witness == confirmed = "false" /\ runs > 0 /\ pc = "idle" /\ ~isRestoring

\* C13: with nobody signed in, createBackup, handleRestore and bulkImportTransactions
\* each stop before any DataStore call: no step changes the DataStore or counts a failed
\* call, no restore and no export gets under way, and every step taken shows the
\* authentication error: the toast of the handler, or the error the mutation throws.
C13_NoIdentityNoAccess ==
  [][session = Null =>
       /\ store' = store /\ nextId' = nextId /\ faults' = faults
       /\ pc' = "idle" /\ ~isRestoring' /\ runs' = runs
       /\ bti' = 0 /\ ~isBackingUp' /\ download' = download
       /\ mutations' = mutations => toast' \in {"auth-error", "backup-auth-error"}
       /\ (mutations' # mutations /\ mutation'.op = "bulkImportTransactions") =>
            mutation'.thrown = "User not authenticated"]_vars

\* nobody is signed in; a restore was tried, and a bulk import was
C13_Witness ==
  /\ session = Null /\ toast = "auth-error" /\ pc = "idle"
  /\ mutation.op = "bulkImportTransactions" /\ mutation.thrown = "User not authenticated"

(***************************************************************************)
(* Claims about failures during a restore run                              *)
(***************************************************************************)
\* the history entries of the records the current run wrote
RestoredEntries == {e \in trace : e.run = runs /\ e.row # Null}

\* the history entries of the records the current run failed to restore
FailedEntries == {e \in trace : e.run = runs /\ e.outcome \in {"skipped", "failed"}}

\* entry e is about an earlier record of the run than entry f
Earlier(e, f) ==
  TableIndex(e.t) < TableIndex(f.t) \/ (e.t = f.t /\ e.idx < f.idx)

C17_SuccessIffNoFailure ==
  [][(pc = "summary" /\ pc' = "idle") =>
       /\ confirmed = "true" /\ ~isRestoring'
       /\ IF FailedEntries = {}
          THEN backupStatus' = "success" /\ toast' = "restore-success" /\ reloadScheduled'
          ELSE /\ backupStatus' = "error" /\ toast' = "restore-errors"
               /\ {errors[i].table : i \in 1..Len(errors)} = {e.t : e \in FailedEntries}
               /\ ~reloadScheduled']_vars

\* a run that restored a record and failed on another ended with the error summary
C17_Witness ==
  /\ pc = "idle" /\ confirmed = "true" /\ backupStatus = "error" /\ ~reloadScheduled
  /\ FailedEntries # {} /\ RestoredEntries # {}

\* every record of every collection of the document has an entry in the history of the
\* current run
AllProcessed ==
  \A t \in TableSet : \A j \in 1..Len(backup.data[t]) :
    \E e \in trace : e.run = runs /\ e.t = t /\ e.idx = j

\* C18: a record-level failure (a required reference that cannot be resolved, a failed
\* find, insert or update) never stops the run: the step that counts it goes on to the
\* next record with the run still busy; a run ends only at the prompt or in the summary
\* after every record of every collection was processed; and a confirmed run does get
\* there: every record is eventually processed and the run ends.
C18_FailuresDoNotStop ==
  /\ [][/\ FailedEntries' # FailedEntries =>
            pc' = "record" /\ ri' = ri + 1 /\ ti' = ti /\ isRestoring'
        /\ (pc # "idle" /\ pc' = "idle") =>
            (pc = "confirm" /\ confirmed' = "false") \/ (pc = "summary" /\ AllProcessed)]_vars
  /\ (confirmed = "true" /\ pc = "table" /\ ti = 1) ~> (pc = "idle" /\ AllProcessed /\ ~isRestoring)

\* a run went on after a failed record and restored a later one, and came to its end
C18_Witness ==
  /\ pc = "idle" /\ confirmed = "true" /\ AllProcessed
  /\ \E f \in FailedEntries : \E e \in RestoredEntries : Earlier(f, e)

\* lines 428-431 read per collection: the sum of the count fields of the error entries
\* of collection t, from the i-th entry on
RECURSIVE ReportedErrors(_, _)
ReportedErrors(t, i) ==
  IF i > Len(errors) THEN 0
  ELSE (IF errors[i].table = t THEN errors[i].count ELSE 0) + ReportedErrors(t, i + 1)

\* C19: when a confirmed run has ended, the error count reported for each collection
\* (the sum of the count fields of its error entries) is the number of the collection's
\* records that failed to restore.
C19_ReportedEqualsFailed ==
  (pc = "idle" /\ confirmed = "true") =>
    \A t \in TableSet : ReportedErrors(t, 1) = Cardinality({e \in FailedEntries : e.t = t})

\* the record in work has a natural key
Keyed == uniqueField(table) # "" /\ Truthy(Get(cur.cleanRecord, uniqueField(table)))

\* C20: an insert that the DataStore rejects for the unique constraint, after a find
\* that gave no row, is retried once as find by natural key and update: the rejected
\* insert writes nothing and leads to the second find; the second find leads to the
\* update of the row found or to the record's error; the update, when it succeeds,
\* writes the payload onto the found row, counts the record and maps its old id to that
\* row, and in either case the loop goes to the next record.  An insert that fails for
\* another reason counts one error for the record and nothing more is written for it.
C20_RetryOnceOnUniqueViolation ==
  [][/\ (pc = "insert" /\ pc' # "insert" /\ faults' = faults
            /\ Keyed /\ UniqueViolation(table, cur.cleanRecord)) =>
          /\ pc' = "fallbackFind" /\ store' = store /\ ri' = ri
          /\ tableErrors' = tableErrors /\ successfulInserts' = successfulInserts
     /\ (pc = "fallbackFind" /\ pc' # pc) =>
          /\ store' = store /\ successfulInserts' = successfulInserts
          /\ (faults' = faults /\ Cardinality(Matching(table, uniqueField(table),
                                                       cur.cleanRecord[uniqueField(table)])) = 1)
               => pc' = "fallbackUpdate"
          /\ \/ pc' = "fallbackUpdate" /\ ri' = ri /\ tableErrors' = tableErrors
                  /\ cur'.existing \in Matching(table, uniqueField(table), cur.cleanRecord[uniqueField(table)])
             \/ pc' = "record" /\ ri' = ri + 1 /\ tableErrors' = tableErrors + 1
     /\ (pc = "fallbackUpdate" /\ pc' # pc) =>
          /\ pc' = "record" /\ ri' = ri + 1
          /\ \/ /\ store' = [store EXCEPT ![table][cur.existing] = Merge(@, cur.cleanRecord)]
                /\ successfulInserts' = successfulInserts + 1
                /\ tableErrors' = tableErrors
                /\ Truthy(cur.oldId) => idMappings'[table][cur.oldId] = cur.existing
             \/ /\ store' = store
                /\ tableErrors' = tableErrors + 1
                /\ successfulInserts' = successfulInserts
     /\ (pc = "insert" /\ faults' # faults) =>
          /\ store' = store /\ nextId' = nextId
          /\ tableErrors' = tableErrors + 1 /\ successfulInserts' = successfulInserts
          /\ pc' = "record" /\ ri' = ri + 1]_vars

\* the find gave no row, another client then wrote the key, and the record was
\* restored by the retry onto that client's row
C20_Witness ==
  \E e \in trace :
    /\ e.outcome = "updated" /\ e.row \in DOMAIN store[e.t]
    /\ store[e.t][e.row]["notes"] = e.written["notes"]
    /\ ~seeded /\ faults = 0
    /\ Get(backup.data[e.t][e.idx], "id") \in DOMAIN idMappings[e.t]
    /\ idMappings[e.t][backup.data[e.t][e.idx]["id"]] = e.row
    /\ \A e1 \in trace : e1.row # e.row \/ e1 = e

(***************************************************************************)
(* Claims about the export                                                 *)
(***************************************************************************)
\* what the select of collection t gives while the collections in `failing` cannot be read
Snapshot(t) == IF t \in failing THEN << >> ELSE SelectAll(t)

\* C14: the export does not abort on a collection's fetch failure.  Whatever subset of
\* the collections fails, every round of the loop goes on to the next collection with
\* the export still running, the entries are made in the order of `tables`, and the
\* downloaded snapshot has an entry for each of the 14 collections: the empty sequence
\* for a failed collection, the fetched rows for the others.
C14_ExportSurvivesFetchFailures ==
  [][/\ bti \in 1..Len(tables) => bti' = bti + 1 /\ isBackingUp' /\ backupStatus' # "error"
     /\ bti' > 0 => /\ DOMAIN backupData' = {tables[i] : i \in 1..(bti' - 1)}
                    /\ \A t \in DOMAIN backupData' : backupData'[t] = Snapshot(t)
     /\ download' # download => /\ DOMAIN download'.data = TableSet
                                /\ Len(tables) = 14
                                /\ \A t \in TableSet : download'.data[t] = Snapshot(t)]_vars

\* a file was downloaded while some, but not all, collections of a DataStore with rows
\* failed to be read
C14_Witness ==
  /\ download # NoDownload /\ seeded
  /\ \E t \in failing : SelectAll(t) # << >> /\ download.data[t] = << >>
  /\ \E t \in TableSet \ failing : download.data[t] # << >>

\* C15: the export only reads: no step of createBackup changes a collection of the
\* DataStore, whether the export ends in a download or in an error.
C15_ExportReadOnly ==
  [][(bti # 0 \/ bti' # 0) => store' = store /\ nextId' = nextId]_vars

\* an export over a DataStore with rows ran to its end
C15_Witness == seeded /\ ~isBackingUp /\ backupStatus \in {"success", "error"} /\ bti = 0
                 /\ backupData # EmptyRec

(***************************************************************************)
(* C21: no two runs of one handler overlap, and the flag tells a run       *)
(***************************************************************************)
\* the invocations of a handler that are past setting its flag and have not ended
InFlight(handler) ==
  {k \in DOMAIN calls : calls[k].handler = handler /\ calls[k].at \in {"text", "run"}}

\* C21: whatever the order of clicks and file selections, at most one run of createBackup
\* and at most one run of handleRestore is between its start and its end, and the flag
\* of the handler is true exactly while such a run is under way
C21_OneRunAtATime ==
  \A handler \in Handlers :
    /\ Cardinality(InFlight(handler)) <= 1
    /\ Busy(handler) <=> InFlight(handler) # {}

(***************************************************************************)
(* C22: the commit of a transactions import is one batch, all or nothing   *)
(***************************************************************************)
\* the candidates of the rows the dialog shows
Candidates == [k \in 1..Len(parsedRows) |-> parsedRows[k].data]

\* some candidate of the batch fails the schema or the account resolution
SomeCandidateFails(batchData) ==
  \E k \in 1..Len(batchData) :
    \/ BulkSchemaViolations(batchData[k]) # << >>
    \/ BulkResolve(batchData[k], FetchedAccounts, leafAccountIds(FetchedAccounts)).thrown # Null

RECURSIVE FieldsOf(_, _, _)
\* the fields of a line when a comma between double quotes is part of its field
FieldsOf(s, inside, field) ==
  IF s = << >> THEN << field >>
  ELSE IF Head(s) = Quote THEN FieldsOf(Tail(s), ~inside, Append(field, Head(s)))
  ELSE IF Head(s) = Comma /\ ~inside THEN << field >> \o FieldsOf(Tail(s), FALSE, << >>)
  ELSE FieldsOf(Tail(s), inside, Append(field, Head(s)))

\* C23: the values either parser takes from a data line of the parsed file are the
\* fields of the line, one value per field and in the same positions, where a comma
\* inside double quotes belongs to its field
C23_QuotedCommaOneField ==
  \A k \in 1..Len(parsedRows) :
    LET line == Lines(csvFile.text)[k + 1]
        fields == FieldsOf(line, FALSE, << >>)
    IN Values(line) = [i \in 1..Len(fields) |-> join(stripQuotes(trim(fields[i])))]

(***************************************************************************)
(* C24: a restore replaces the data that was there                         *)
(***************************************************************************)
\* C24: once a confirmed restore run has ended, the collections hold the snapshot's data
\* in place of what they held: every row of the DataStore is a row the run inserted or
\* updated, so a row from before the run that matches no record of the snapshot is gone
C24_RestoreReplaces ==
  (pc = "idle" /\ confirmed = "true" /\ ~isRestoring /\ runs > 0) =>
    \A t \in TableSet : \A id \in DOMAIN store[t] :
      \E e \in trace : e.run = runs /\ e.t = t /\ e.row = id

(***************************************************************************)
(* C25: the DataStore operations of a run are sequential and in order      *)
(***************************************************************************)
\* the handler awaits a find, insert or update of the record in work
AtOperation(at) == at \in {"find", "update", "insert", "fallbackFind", "fallbackUpdate"}

\* C25: the operations of a restore run come one record after the other.  While a find,
\* insert or update is awaited it belongs to the record at the head of the loops, and no
\* other record is taken up before it is answered; the step that ends a record's
\* operations also makes its entry in the ID map; the DataStore is written only by
\* such operations; and the records end in the order of `tables` and, within a
\* collection, in the order of the snapshot.
C25_SequentialInOrder ==
  [][/\ AtOperation(pc) =>
          /\ bi + ri \in 1..Len(backup.data[tables[ti]])
          /\ cur.oldId = Get(backup.data[tables[ti]][bi + ri], "id")
          /\ AtOperation(pc') => ti' = ti /\ bi' = bi /\ ri' = ri /\ trace' = trace
          /\ ~AtOperation(pc') =>
               /\ pc' = "record" /\ ti' = ti /\ bi' = bi /\ ri' = ri + 1
               /\ \E e \in trace' \ trace :
                    /\ trace' = trace \cup {e}
                    /\ e.t = tables[ti] /\ e.idx = bi + ri
                    /\ (e.row # Null /\ Truthy(cur.oldId)) =>
                         idMappings'[e.t][cur.oldId] = e.row
     /\ store' # store => pc \in {"update", "insert", "fallbackUpdate"}
     /\ \A e \in trace' \ trace : \A f \in trace : f.run = e.run => Earlier(f, e)
     /\ (pc # "idle" /\ pc' # "idle") => ti' >= ti /\ (ti' = ti /\ pc = "record" => bi' >= bi)]_vars

\* a run has restored the two records of one collection, each with its entry in the ID map
C25_Witness ==
  \E e, f \in RestoredEntries :
    /\ e.t = f.t /\ e.idx = 1 /\ f.idx = 2
    /\ Cardinality(DOMAIN idMappings[e.t]) = 2
    /\ pc = "idle"

(***************************************************************************)
(* C26: the fixed order against the references of the configuration        *)
(***************************************************************************)
\* the optional reference fields of a collection that the restore maps through the ID map
Remappable(t) == OptionalRefs(t) \cap DOMAIN optionalFkMapping

\* the run is at the records of a collection
InCollection == pc = "record" \/ AtOperation(pc)

OldIdOf(e) == Get(backup.data[e.t][e.idx], "id")

\* C27: at every point of a confirmed run, the ID map holds an entry for a collection
\* and an old id exactly when the run has inserted or updated the snapshot record of
\* that collection with that id, and the entry's value is the id of the row that was
\* written, a row of that collection; records that failed or were skipped, or had
\* nothing left to write, have no entry; hence the map is empty when the run starts
C27_IdMapExact ==
  confirmed = "true" =>
    /\ \A t \in DOMAIN idMappings : \A o \in DOMAIN idMappings[t] :
         \E e \in RestoredEntries :
           e.t = t /\ OldIdOf(e) = o /\ idMappings[t][o] = e.row /\ e.row \in DOMAIN store[t]
    /\ \A e \in RestoredEntries :
         Truthy(OldIdOf(e)) =>
           /\ e.t \in DOMAIN idMappings /\ OldIdOf(e) \in DOMAIN idMappings[e.t]
           /\ idMappings[e.t][OldIdOf(e)] = e.row
    /\ \A e \in trace :
         (e.run = runs /\ e.row = Null /\ e.t \in DOMAIN idMappings) =>
           OldIdOf(e) \notin DOMAIN idMappings[e.t]

\* in its second run the handler has restored one record of a collection and failed
\* another, after a first run that restored records too
C27_Witness ==
  /\ runs = 2 /\ confirmed = "true"
  /\ \E e \in trace : e.run = 1 /\ e.row # Null
  /\ \E e \in RestoredEntries : \E f \in FailedEntries : e.t = f.t
  /\ \E t \in DOMAIN idMappings : Cardinality(DOMAIN idMappings[t]) = 1

(***************************************************************************)
(* C28: a transfer needs two different accounts                            *)
(***************************************************************************)
\* the value of the type cell of data row k of the text
TypeCell(text, k) ==
  ValueAt(Values(Lines(text)[k + 1]), findIndex(Headers(Lines(text)[1]), {"type"}))

\* the id of the leaf account the account cell of row k resolves to, or none
ResolvedCell(text, k, side) ==
  LET cell == AccountCell(text, k, side)
  IN IF cell = "" \/ CellAccount(cell) = 0 \/ HasChildren(accounts[CellAccount(cell)].id)
     THEN Null ELSE accounts[CellAccount(cell)].id

\* the id an account of a candidate resolves to in bulkImportTransactions: the account
\* of that name or code, else the id given with it
ResolvedRef(txnData, nameField, idField) ==
  IF ~Truthy(Get(txnData, nameField)) THEN Null
  ELSE IF CellAccount(txnData[nameField]) # 0 THEN accounts[CellAccount(txnData[nameField])].id
  ELSE Get(txnData, idField)

\* the candidate is a transfer whose two accounts resolve to one id
SameAccountTransfer(txnData) ==
  /\ txnData["type"] = "transfer"
  /\ Truthy(ResolvedRef(txnData, "accountFrom", "accountFromId"))
  /\ ResolvedRef(txnData, "accountFrom", "accountFromId")
       = ResolvedRef(txnData, "accountTo", "accountToId")

\* C28: every parsed CSV row whose type cell reads transfer (in any letter case) and
\* whose from-account cell resolves to no leaf account has the error 'From Account is
\* required for transfer transactions', likewise for the to-account cell, and a row
\* whose two cells resolve to the same account has the error 'From and To accounts must
\* be different for transfer transactions'; and a call of bulkImportTransactions whose
\* account fetches were answered and whose batch holds a transfer with both accounts
\* resolving to one id throws and inserts nothing.
C28_TransferNeedsTwoAccounts ==
  [][/\ (dialog = "transactions" /\ parses' # parses) =>
          \A p \in parses' \ parses : \A k \in 1..Len(p.rows) :
            LET from == ResolvedCell(TextOf(p.name), k, "from")
                to == ResolvedCell(TextOf(p.name), k, "to")
            IN toLowerCase(TypeCell(TextOf(p.name), k)) = "transfer" =>
                 /\ from = Null =>
                      InSeq("From Account is required for transfer transactions", p.rows[k].errors)
                 /\ to = Null =>
                      InSeq("To Account is required for transfer transactions", p.rows[k].errors)
                 /\ (from # Null /\ from = to) =>
                      InSeq("From and To accounts must be different for transfer transactions",
                            p.rows[k].errors)
     /\ (mutations' # mutations /\ mutation'.op = "bulkImportTransactions" /\ faults' = faults
           /\ \E k \in 1..Len(mutation'.input) : SameAccountTransfer(mutation'.input[k])) =>
          mutation'.thrown # Null /\ store' = store]_vars

\* a parsed row of type transfer names one leaf account in both cells and has the error
C28_Witness ==
  /\ dialog = "transactions"
  /\ \E k \in 1..Len(parsedRows) :
       /\ Get(parsedRows[k].data, "type") = "transfer"
       /\ Has(parsedRows[k].data, "accountFromId")
       /\ Get(parsedRows[k].data, "accountFromId") = Get(parsedRows[k].data, "accountToId")
       /\ InSeq("From and To accounts must be different for transfer transactions",
                parsedRows[k].errors)

(***************************************************************************)
(* C29: enumerated cells are matched in any letter case or rejected        *)
(***************************************************************************)
\* the value of the status cell of data row k of the text
StatusCell(text, k) ==
  ValueAt(Values(Lines(text)[k + 1]), findIndex(Headers(Lines(text)[1]), {"status"}))

\* the error of a type cell outside the allowed set
InvalidType == "Invalid type. Must be one of: sale, purchase, payment, expense, transfer"

\* C29: in the transactions dialog a row whose type cell is given and, lower-cased, is
\* none of sale, purchase, payment, expense, transfer has the error 'Invalid type. Must
\* be one of: ...' and no type in its candidate, while a cell that matches in any letter
\* case assigns the lower-case type without that error; a given status cell outside the
\* allowed statuses has the 'Invalid status...' error; and while a row with the
\* 'Invalid type...' error is in the parsed batch the Import button is disabled and no
\* step calls onImport, however many other rows are valid.
C29_EnumRejected ==
  /\ []((dialog = "transactions"
           /\ \E k \in 1..Len(parsedRows) : InSeq(InvalidType, parsedRows[k].errors))
          => ImportDisabled)
  /\ [][/\ (dialog = "transactions" /\ parses' # parses) =>
             \A p \in parses' \ parses : \A k \in 1..Len(p.rows) :
               LET typeStr == toLowerCase(TypeCell(TextOf(p.name), k))
                   statusStr == toLowerCase(StatusCell(TextOf(p.name), k))
               IN /\ (typeStr # ""
                        /\ typeStr \notin {"sale", "purchase", "payment", "expense", "transfer"})
                       => InSeq(InvalidType, p.rows[k].errors) /\ ~Has(p.rows[k].data, "type")
                  /\ typeStr \in {"sale", "purchase", "payment", "expense", "transfer"}
                       => Get(p.rows[k].data, "type") = typeStr
                            /\ ~InSeq(InvalidType, p.rows[k].errors)
                  /\ (statusStr # "" /\ ~InSeq(statusStr, TransactionStatuses))
                       => \E n \in 1..Len(p.rows[k].errors) :
                            p.rows[k].errors[n]
                              = "Invalid status. Must be one of: " \o joinWith(TransactionStatuses, ", ")
        /\ (dialog = "transactions"
              /\ \E k \in 1..Len(parsedRows) : InSeq(InvalidType, parsedRows[k].errors))
             => onImportCalls' = onImportCalls]_vars

\* the parsed batch of the transactions dialog holds a row rejected for its type next to
\* a row without errors, and nothing was passed to onImport
C29_Witness ==
  /\ dialog = "transactions" /\ open /\ ~isProcessing
  /\ \E k \in 1..Len(parsedRows) :
       InSeq(InvalidType, parsedRows[k].errors) /\ ~Has(parsedRows[k].data, "type")
  /\ \E k \in 1..Len(parsedRows) : parsedRows[k].errors = << >>
  /\ onImportCalls = << >>

(***************************************************************************)
(* C30: the totals of a sales-order row come from its validated line items *)
(***************************************************************************)
\* the value of the line-items cell of data row k of the text
ItemsCell(text, k) ==
  ValueAt(Values(Lines(text)[k + 1]),
          findIndex(Headers(Lines(text)[1]), {"lineitems", "line_items", "items"}))

\* the line items written in the cell, blank ones left out
ItemStrings(cell) == SelectSeq(splitString(cell, Semicolon), LAMBDA str : trimString(str) # "")

\* an error of the row is about line item n
ItemFailed(rowErrors, n) ==
  LET label == "Line item " \o ToString(n) \o ": "
  IN \E e \in 1..Len(rowErrors) :
       Len(rowErrors[e]) >= Len(label) /\ SubSeq(rowErrors[e], 1, Len(label)) = label

\* the numbers written in a line item without an error: quantity, unit price, discount
WrittenIn(itemString) ==
  LET raw == splitString(itemString, Pipe)
      parts == [m \in 1..Len(raw) |-> trimString(raw[m])]
  IN [quantity |-> parseFloat(parts[2]),
      unitPrice |-> parseFloat(parts[3]),
      discount |-> IF Len(parts) >= 4 /\ ~isNaN(parts[4]) THEN parseFloat(parts[4]) ELSE 0]

\* max(0, quantity x unitPrice - discount)
ItemTotal(item) ==
  IF item.quantity * item.unitPrice - item.discount < 0 THEN 0
  ELSE item.quantity * item.unitPrice - item.discount

\* C30: every parsed sales-order row with at least one line item in its candidate holds
\* exactly the line items of its cell that have no 'Line item n: ...' error, with the
\* numbers written in the cell and total = max(0, quantity x unitPrice - discount) each;
\* its subtotal is the sum of quantity x unitPrice, its discountAmount the sum of the
\* discounts and its total the sum of the item totals over those items only, its balance
\* is its total, and its paidAmount and taxAmount are 0.
C30_TotalsFromValidatedItems ==
  [][(dialog = "salesOrders" /\ parses' # parses) =>
       \A p \in parses' \ parses : \A k \in 1..Len(p.rows) :
         LET data == p.rows[k].data
             strs == ItemStrings(ItemsCell(TextOf(p.name), k))
             kept == SelectSeq([n \in 1..Len(strs) |-> n], LAMBDA n : ~ItemFailed(p.rows[k].errors, n))
             written == [j \in 1..Len(kept) |-> WrittenIn(strs[kept[j]])]
         IN (Has(data, "lineItems") /\ Get(data, "lineItems") # << >>) =>
              /\ Len(data["lineItems"]) = Len(kept)
              /\ \A j \in 1..Len(kept) :
                   /\ data["lineItems"][j].quantity = written[j].quantity
                   /\ data["lineItems"][j].unitPrice = written[j].unitPrice
                   /\ data["lineItems"][j].discount = written[j].discount
                   /\ data["lineItems"][j].total = ItemTotal(written[j])
              /\ data["subtotal"]
                   = Sum([j \in 1..Len(kept) |-> written[j].quantity * written[j].unitPrice])
              /\ data["discountAmount"] = Sum([j \in 1..Len(kept) |-> written[j].discount])
              /\ data["total"] = Sum([j \in 1..Len(kept) |-> ItemTotal(written[j])])
              /\ data["balance"] = data["total"]
              /\ data["paidAmount"] = 0
              /\ data["taxAmount"] = 0]_vars

\* the batch on display holds a row with one validated line item of the two written in
\* its cell, the other one rejected, and the totals of the row are those of that item
C30_Witness ==
  /\ dialog = "salesOrders"
  /\ \E k \in 1..Len(parsedRows) :
       /\ Has(parsedRows[k].data, "lineItems")
       /\ Len(ItemStrings(ItemsCell(TextOf(file.name), k))) = 2
       /\ Len(parsedRows[k].data["lineItems"]) = 1
       /\ ItemFailed(parsedRows[k].errors, 2)
       /\ parsedRows[k].data["subtotal"] = 20
       /\ parsedRows[k].data["total"] = 20
       /\ parsedRows[k].data["balance"] = 20

(***************************************************************************)
(* C31: the schema re-validation of a parsed row                           *)
(* TransactionFormDialog.tsx 562-573, part_002 319-331                     *)
(***************************************************************************)
\* issues of a ZodError at most
MaxIssues == 2

\* schemaError.errors: issues a schema can report, as (path.join('.'), message); an
\* issue of a rule on the whole candidate has the empty path
ZodIssues ==
  { [path |-> "date", message |-> "Required"],
    [path |-> "type", message |-> "Required"],
    [path |-> "lineItems", message |-> "At least one line item is required"],
    [path |-> "", message |-> "From and To accounts must be different"] }

\* schemaError.errors of one parse: no issue when the candidate passes
IssueLists == UNION {[1..n -> ZodIssues] : n \in 0..MaxIssues}

\* rowErrors before the re-validation: field-specific messages of the two parsers
FieldErrorLists ==
  { << >>,
    << "Date is required" >>,
    << "Invalid date format: soon" >>,
    << "Invalid type. Must be one of: sale, purchase, payment, expense, transfer", "Type is required" >>,
    << "At least one line item is required" >>,
    << "lineItems: At least one line item is required" >> }

\* lines 562-573 and 319-331: the try block around schema.parse(rowData), for a candidate
\* whose field checks left rowErrors and whose schema reports the violations
Revalidate ==
  /\ revalidation = NoRevalidation
  /\ \E kind \in {"transactions", "salesOrders"}, rowErrors \in FieldErrorLists,
        violations \in IssueLists :
       revalidation' =
         [kind |-> kind, rowErrors |-> rowErrors, violations |-> violations,
          errors |-> IF kind = "transactions" THEN AppendSchemaErrors(rowErrors, violations)
                     ELSE AppendSalesSchemaErrors(rowErrors, violations)]
  /\ UNCHANGED << dsVars, restoreVars, refVars, session, calls, exportVars, dialogVars, txnVars,
                  entryVars, walk, authVars >>

NextSchema == Revalidate

InitSchema ==
  InitRestore({Null}, 0) /\ failing = {} /\ DialogIdle /\ NoReferenceData /\ TxnIdle

SpecSchema == InitSchema /\ [][NextSchema]_vars

\* C31: in both parsers, whatever errors the field checks left and whatever violations
\* the schema reports for the candidate, the error list of the row is empty only if the
\* schema reports no violation: the error list keeps the field errors as its first
\* entries, and when they are none the first violation is always appended.
C31_ValidOnlyIfSchemaPasses ==
  revalidation.kind # "none" =>
    /\ revalidation.errors = << >> => revalidation.violations = << >>
    /\ Len(revalidation.errors) >= Len(revalidation.rowErrors)
    /\ SubSeq(revalidation.errors, 1, Len(revalidation.rowErrors)) = revalidation.rowErrors
    /\ (revalidation.rowErrors = << >> /\ revalidation.violations # << >>) =>
         revalidation.errors[1]
           = revalidation.violations[1].path \o ": " \o revalidation.violations[1].message

\* the field checks of the transactions parser left no error and the schema reports two
\* violations; the second one is suppressed by the message of the first, and the row
\* still carries an error
C31_Witness ==
  /\ revalidation.kind = "transactions"
  /\ revalidation.rowErrors = << >>
  /\ Len(revalidation.violations) = 2
  /\ revalidation.violations[2].path = ""
  /\ revalidation.errors = << "date: Required" >>

(***************************************************************************)
(* HierarchicalAccountSelect.tsx: the hierarchy, the search filter and the *)
(* rendered items.  The order of the items (by type, then by code) is not  *)
(* modelled: the items on display are a set.                               *)
(***************************************************************************)
\* an account that is not active
Inactive(acc) == [acc EXCEPT !.status = "inactive"]

\* line 97: accounts.filter(acc => acc.status === "active")
activeAccounts(accs) == SelectSeq(accs, LAMBDA acc : acc.status = "active")

\* lines 100-111, 261: childMap.get(id) || []
childMapGet(accs, id) ==
  SelectSeq(activeAccounts(accs), LAMBDA acc : Truthy(acc.parentId) /\ acc.parentId = id)

\* line 114: the ids of activeAccounts.filter(acc => !childMap.has(acc.id))
leafAccounts(accs) ==
  {activeAccounts(accs)[i].id :
     i \in {j \in 1..Len(activeAccounts(accs)) : childMapGet(accs, activeAccounts(accs)[j].id) = << >>}}

\* lines 117-131: buildHierarchy(null), the ids of the active accounts whose parentId is null
rootAccounts(accs) ==
  {activeAccounts(accs)[i].id :
     i \in {j \in 1..Len(activeAccounts(accs)) : activeAccounts(accs)[j].parentId = Null}}

\* accountMap.get(id)?.parentId || null
parentIdOf(accs, id) ==
  LET hits == {i \in 1..Len(activeAccounts(accs)) : activeAccounts(accs)[i].id = id}
  IN IF hits = {} THEN Null
     ELSE IF Truthy(activeAccounts(accs)[LastOf(hits)].parentId)
     THEN activeAccounts(accs)[LastOf(hits)].parentId ELSE Null

\* lines 161-175: the accounts whose code or name includes the query
matchingAccountIds(accs, query) ==
  {activeAccounts(accs)[i].id :
     i \in {j \in 1..Len(activeAccounts(accs)) :
              \/ includes(toLowerCase(activeAccounts(accs)[j].code), query)
              \/ includes(toLowerCase(activeAccounts(accs)[j].name), query)}}

RECURSIVE walked(_, _, _)
\* lines 170-175: the ids the while loop adds from currentId on, in at most `steps` rounds
walked(accs, currentId, steps) ==
  IF ~Truthy(currentId) \/ steps = 0 THEN {}
  ELSE {currentId} \cup walked(accs, parentIdOf(accs, currentId), steps - 1)

\* parentsToExpand, for a list whose walks end
parentsToExpand(accs, query) ==
  UNION {walked(accs, parentIdOf(accs, id), Len(accs)) : id \in matchingAccountIds(accs, query)}

RECURSIVE hasMatchingDescendant(_, _, _)
\* lines 179-183
hasMatchingDescendant(accs, matching, accountId) ==
  \/ accountId \in matching
  \/ \E c \in 1..Len(childMapGet(accs, accountId)) :
       hasMatchingDescendant(accs, matching, childMapGet(accs, accountId)[c].id)

\* lines 150-155, 187-192: the root accounts of filteredHierarchicalAccounts
filteredRoots(accs, searchQuery) ==
  IF trimString(searchQuery) = "" THEN rootAccounts(accs)
  ELSE {r \in rootAccounts(accs) :
          hasMatchingDescendant(accs, matchingAccountIds(accs, trimString(toLowerCase(searchQuery))), r)}

\* lines 203-210: effectiveExpandedIds
effectiveExpandedIds(accs, searchQuery, expandedId) ==
  IF trimString(searchQuery) # "" THEN parentsToExpand(accs, trimString(toLowerCase(searchQuery)))
  ELSE IF Truthy(expandedId) THEN {expandedId} ELSE {}

RECURSIVE renderAccountTree(_, _, _)
\* lines 257-336: the ids of the items renderAccountTree(account, level) puts on display
renderAccountTree(accs, accountId, expanded) ==
  IF accountId \in leafAccounts(accs) THEN {accountId}
  ELSE {accountId}
       \cup (IF accountId \in expanded
             THEN UNION {renderAccountTree(accs, childMapGet(accs, accountId)[c].id, expanded) :
                           c \in 1..Len(childMapGet(accs, accountId))}
             ELSE {})

\* lines 375-387: the ids of all items on display
renderedItems(accs, searchQuery, expandedId) ==
  UNION {renderAccountTree(accs, r, effectiveExpandedIds(accs, searchQuery, expandedId)) :
           r \in filteredRoots(accs, searchQuery)}

\* the CommandItems on display: the items with onSelect
selectableItems(accs, searchQuery, expandedId) ==
  renderedItems(accs, searchQuery, expandedId) \cap leafAccounts(accs)

\* the parent items on display: the items with onClick = toggleExpanded
parentItems(accs, searchQuery, expandedId) ==
  renderedItems(accs, searchQuery, expandedId) \ leafAccounts(accs)

(***************************************************************************)
(* Manual entry: TransactionFormDialog (TransactionFormDialog.tsx 21-296)  *)
(* with its two HierarchicalAccountSelects                                 *)
(***************************************************************************)
\* onSave calls in one behaviour at most
MaxSaves == 1

\* the account lists the form is mounted with: a parent with two leaves, three levels,
\* an inactive parent and an inactive root, an inactive child and a parent not in the list
FormAccountLists ==
  { << Account("a1", "Assets", "1000", Null), Account("a2", "Cash", "1100", "a1"),
       Account("a3", "Bank", "1200", "a1") >>,
    << Account("a1", "Assets", "1000", Null), Account("a2", "Cash", "1100", "a1"),
       Account("a3", "Bank", "1200", "a2") >>,
    << Inactive(Account("a1", "Assets", "1000", Null)), Account("a2", "Cash", "1100", "a1"),
       Inactive(Account("a3", "Bank", "1200", Null)) >>,
    << Account("a1", "Assets", "1000", Null), Inactive(Account("a2", "Cash", "1100", "a1")),
       Account("a3", "Bank", "1200", "a9") >> }

\* the transactions the form is opened with for editing
EditedTransactions ==
  { [type |-> "sale", description |-> "Old", accountFrom |-> "a1", accountTo |-> "a3", amount |-> 50],
    [type |-> "sale", description |-> "Old", accountFrom |-> "a2", accountTo |-> "Bank", amount |-> 0] }

\* what the user types into the search input
SearchQueries == {"", "ca", "BANK"}

\* lines 54-75: the ids of the active accounts that are no key of the form's childrenMap
formLeafAccountIds(accs) ==
  LET active == SelectSeq(accs, LAMBDA acc : acc.status = "active")
      keys == {active[i].parentId : i \in {j \in 1..Len(active) : Truthy(active[j].parentId)}}
  IN {active[i].id : i \in {j \in 1..Len(active) : active[j].id \notin keys}}

\* lines 35-51: the effect that runs when prop open or prop transaction changes; a closed
\* dialog unmounts its content, the two selects with it
Reopened == IF transaction # NoTransaction THEN transaction ELSE BlankForm

\* the dialog is opened by its page: the effect of lines 35-51 sets the form data
FormOpens ==
  /\ ~formOpen /\ Len(onSaveCalls) < MaxSaves
  /\ \E t \in EditedTransactions \cup {NoTransaction} :
       /\ transaction' = t
       /\ formData' = IF t # NoTransaction THEN t ELSE BlankForm
  /\ formOpen' = TRUE
  /\ pickers' = [side \in Sides |-> ClosedPicker]
  /\ UNCHANGED << dsVars, restoreVars, refVars, session, calls, revalidation, walk, authVars, exportVars, dialogVars,
                  txnVars, onSaveCalls, formToast, saving >>

\* lines 168, 200-206: onChange of the description and amount inputs
SetField ==
  /\ formOpen
  /\ \/ \E val \in {"", "Rent"} : formData' = Merge(formData, "description" :> val)
     \/ \E val \in {"", "0", "100"} :
          formData' = IF val = "" \/ parseFloat(val) = 0
                      THEN Restrict(formData, DOMAIN formData \ {"amount"})
                      ELSE Merge(formData, "amount" :> parseFloat(val))
  /\ UNCHANGED << dsVars, restoreVars, refVars, session, calls, revalidation, walk, authVars, exportVars, dialogVars,
                  txnVars, formOpen, transaction, pickers, onSaveCalls, formToast, saving >>

\* HierarchicalAccountSelect.tsx 341-347: onOpenChange of the popover of one select; opening
\* one closes the other, which is dismissed by the click outside it
OnOpenChange ==
  /\ formOpen
  /\ \E side \in Sides, newOpen \in BOOLEAN :
       /\ pickers[side].open # newOpen
       /\ pickers' =
            [s \in Sides |->
               IF s = side
               THEN IF newOpen THEN [pickers[s] EXCEPT !.open = TRUE] ELSE ClosedPicker
               ELSE IF newOpen /\ pickers[s].open THEN ClosedPicker ELSE pickers[s]]
  /\ UNCHANGED << dsVars, restoreVars, refVars, session, calls, revalidation, walk, authVars, exportVars, dialogVars,
                  txnVars, formOpen, transaction, formData, onSaveCalls, formToast, saving >>

\* lines 368 and 212-217: the search input changes; the effect clears expandedId when the
\* query is blank
SetSearchQuery ==
  /\ formOpen
  /\ \E side \in Sides, q \in SearchQueries :
       /\ pickers[side].open /\ q # pickers[side].searchQuery
       /\ pickers' =
            [pickers EXCEPT ![side] =
               [open |-> TRUE, searchQuery |-> q,
                expandedId |-> IF trimString(q) = "" THEN Null ELSE pickers[side].expandedId]]
  /\ UNCHANGED << dsVars, restoreVars, refVars, session, calls, revalidation, walk, authVars, exportVars, dialogVars,
                  txnVars, formOpen, transaction, formData, onSaveCalls, formToast, saving >>

\* lines 231-242 and 305: a click on a parent item on display
ToggleExpanded ==
  /\ formOpen
  /\ \E side \in Sides :
       /\ pickers[side].open
       /\ \E accountId \in parentItems(accounts, pickers[side].searchQuery, pickers[side].expandedId) :
            pickers' =
              [pickers EXCEPT ![side].expandedId =
                 IF pickers[side].expandedId = accountId THEN Null ELSE accountId]
  /\ UNCHANGED << dsVars, restoreVars, refVars, session, calls, revalidation, walk, authVars, exportVars, dialogVars,
                  txnVars, formOpen, transaction, formData, onSaveCalls, formToast, saving >>

\* lines 270-275 with the onValueChange of the form (TransactionFormDialog.tsx 181, 191):
\* onSelect of a CommandItem on display
OnSelect ==
  /\ formOpen
  /\ \E side \in Sides :
       /\ pickers[side].open
       /\ \E accountId \in selectableItems(accounts, pickers[side].searchQuery, pickers[side].expandedId) :
            formData' = Merge(formData, side :> accountId)
       /\ pickers' = [pickers EXCEPT ![side] = ClosedPicker]
  /\ UNCHANGED << dsVars, restoreVars, refVars, session, calls, revalidation, walk, authVars, exportVars, dialogVars,
                  txnVars, formOpen, transaction, onSaveCalls, formToast, saving >>

\* lines 245-252: Escape; the effect of lines 212-217 runs only when the query changed
HandleKeyDown ==
  /\ formOpen
  /\ \E side \in Sides :
       /\ pickers[side].open
       /\ pickers' =
            [pickers EXCEPT ![side] =
               [open |-> FALSE, searchQuery |-> "",
                expandedId |-> IF pickers[side].searchQuery # "" THEN Null
                               ELSE pickers[side].expandedId]]
  /\ UNCHANGED << dsVars, restoreVars, refVars, session, calls, revalidation, walk, authVars, exportVars, dialogVars,
                  txnVars, formOpen, transaction, formData, onSaveCalls, formToast, saving >>

\* a handleSubmit without the two leaf checks
HandleSubmit_NoLeafCheck ==
  /\ formOpen
  /\ IF \/ ~Truthy(Get(formData, "description")) \/ ~Has(formData, "amount")
        \/ (Has(formData, "amount") /\ formData["amount"] <= 0)
        \/ ~Truthy(Get(formData, "accountFrom")) \/ ~Truthy(Get(formData, "accountTo"))
     THEN /\ formToast' = "Validation Error"
          /\ UNCHANGED << formOpen, onSaveCalls, saving >>
     ELSE /\ onSaveCalls' = Append(onSaveCalls, formData)
          /\ saving' = "pending"
          /\ formToast' = IF transaction # NoTransaction THEN "Transaction Updated"
                          ELSE "Transaction Created"
          /\ formOpen' = FALSE
  /\ formData' = IF formOpen' THEN formData ELSE Reopened
  /\ pickers' = IF formOpen' THEN pickers ELSE [side \in Sides |-> ClosedPicker]
  /\ UNCHANGED << dsVars, restoreVars, refVars, session, calls, revalidation, walk, authVars, exportVars, dialogVars,
                  txnVars, transaction >>

\* lines 78-124: handleSubmit.  onSave returns a promise that nothing awaits
HandleSubmit ==
  /\ formOpen
  /\ IF \/ ~Truthy(Get(formData, "description")) \/ ~Has(formData, "amount")
        \/ (Has(formData, "amount") /\ formData["amount"] <= 0)
     THEN /\ formToast' = "Validation Error"
          /\ UNCHANGED << formOpen, onSaveCalls, saving >>
     ELSE IF ~Truthy(Get(formData, "accountFrom")) \/ ~Truthy(Get(formData, "accountTo"))
     THEN /\ formToast' = "Validation Error"
          /\ UNCHANGED << formOpen, onSaveCalls, saving >>
     ELSE IF formData["accountFrom"] \notin formLeafAccountIds(accounts)
     THEN /\ formToast' = "Validation Error"
          /\ UNCHANGED << formOpen, onSaveCalls, saving >>
     ELSE IF formData["accountTo"] \notin formLeafAccountIds(accounts)
     THEN /\ formToast' = "Validation Error"
          /\ UNCHANGED << formOpen, onSaveCalls, saving >>
     ELSE /\ onSaveCalls' = Append(onSaveCalls, formData)
          /\ saving' = "pending"
          /\ formToast' = IF transaction # NoTransaction THEN "Transaction Updated"
                          ELSE "Transaction Created"
          /\ formOpen' = FALSE
  /\ formData' = IF formOpen' THEN formData ELSE Reopened
  /\ pickers' = IF formOpen' THEN pickers ELSE [side \in Sides |-> ClosedPicker]
  /\ UNCHANGED << dsVars, restoreVars, refVars, session, calls, revalidation, walk, authVars, exportVars, dialogVars,
                  txnVars, transaction >>

\* the promise of the last onSave call settles: the save is done, or it failed
OnSaveSettled ==
  /\ saving = "pending"
  /\ \E outcome \in {"resolved", "rejected"} : saving' = outcome
  /\ UNCHANGED << dsVars, restoreVars, refVars, session, calls, revalidation, walk, authVars, exportVars, dialogVars,
                  txnVars, formOpen, transaction, formData, pickers, onSaveCalls, formToast >>

\* line 287: Cancel
CancelForm ==
  /\ formOpen
  /\ formOpen' = FALSE
  /\ formData' = Reopened
  /\ pickers' = [side \in Sides |-> ClosedPicker]
  /\ UNCHANGED << dsVars, restoreVars, refVars, session, calls, revalidation, walk, authVars, exportVars, dialogVars,
                  txnVars, transaction, onSaveCalls, formToast, saving >>

NextForm ==
  \/ FormOpens \/ SetField \/ OnOpenChange \/ SetSearchQuery \/ ToggleExpanded \/ OnSelect
  \/ HandleKeyDown \/ HandleSubmit \/ OnSaveSettled \/ CancelForm

InitForm ==
  /\ InitRestore({Null}, 0) /\ ~seeded /\ session # Null /\ failing = {} /\ DialogIdle /\ TxnIdle
  /\ accounts \in FormAccountLists /\ customers = << >> /\ products = << >>

SpecForm == InitForm /\ [][NextForm]_vars

(***************************************************************************)
(* C32: manual entry hands no parent account to onSave                     *)
(***************************************************************************)
\* the ids of the active accounts of the list that no active account names as its parent
ActiveLeafIds ==
  {accounts[i].id :
     i \in {j \in 1..Len(accounts) :
              /\ accounts[j].status = "active"
              /\ ~\E k \in 1..Len(accounts) :
                    accounts[k].status = "active" /\ accounts[k].parentId = accounts[j].id}}

\* C32: while the form is open, a step that changes accountFrom or accountTo of the form
\* data (the onValueChange of a select) sets it to the id of an active account without
\* active children, and a step that changes the expanded parent of a select leaves the
\* form data alone; every call of onSave passes form data with a non-empty description,
\* an amount above zero and accountFrom and accountTo both in the active leaf set.
C32_NoParentToSave ==
  [][/\ (formOpen /\ formOpen') =>
          \A side \in Sides :
            /\ formData'[side] # formData[side] => formData'[side] \in ActiveLeafIds
            /\ (pickers'[side].open /\ pickers'[side].expandedId # pickers[side].expandedId)
                 => formData' = formData
     /\ onSaveCalls' # onSaveCalls =>
          LET saved == onSaveCalls'[Len(onSaveCalls')]
          IN /\ onSaveCalls' = Append(onSaveCalls, formData)
             /\ saved["description"] # ""
             /\ Has(saved, "amount") /\ saved["amount"] > 0
             /\ saved["accountFrom"] \in ActiveLeafIds
             /\ saved["accountTo"] \in ActiveLeafIds]_vars

\* a new transaction was handed to onSave whose from-account, chosen in the select, is a
\* leaf on the third level of the hierarchy
C32_Witness ==
  /\ Len(onSaveCalls) = 1 /\ transaction = NoTransaction
  /\ onSaveCalls[1]["accountFrom"] = "a3"
  /\ \E i \in 1..Len(accounts) : accounts[i].id = "a3" /\ accounts[i].parentId = "a2"
  /\ formToast = "Transaction Created"

(***************************************************************************)
(* useAccounts: deleteAccount and bulkDeleteAccounts (part_001 228-332)    *)
(***************************************************************************)
\* the accounts collection holding the account list, with the is_imported flag of each row
ImportedAccountsTable(accs, imported) ==
  [id \in DOMAIN AccountsTable(accs) |->
     Merge(AccountsTable(accs)[id], "is_imported" :> (id \in imported))]

\* deleteAccount and bulkDeleteAccounts calls in one behaviour at most
MaxDeletes == 2

\* the ids the user asks to delete: those of the accounts, and "a9", the id of no account
DeleteIds == {"a1", "a2", "a3", "a9"}

\* the error of deleteAccount for an imported account
ImportedError == "No se puede eliminar una cuenta importada. Las cuentas importadas son permanentes."

\* the collection without the rows of the ids
Without(rows, ids) == [id \in (DOMAIN rows) \ ids |-> rows[id]]

\* lines 229-249: mutationFn of deleteAccount; fault is the call that answers with an error
DeleteAccountData(id, fault) ==
  IF fault = "fetch" \/ id \notin DOMAIN store["accounts"] THEN "fetchError"
  ELSE IF store["accounts"][id].is_imported THEN ImportedError
  ELSE IF fault = "delete" THEN "error"
  ELSE Null

\* deleteAccount.mutate(id)
DeleteAccount ==
  /\ mutations < mutationLimit
  /\ \E id \in DeleteIds, fault \in {"none"} \cup (IF MayFail THEN {"fetch", "delete"} ELSE {}) :
       LET thrown == DeleteAccountData(id, fault)
       IN /\ mutation' = [op |-> "deleteAccount", input |-> {id}, thrown |-> thrown]
          /\ faults' = IF fault # "none" THEN faults + 1 ELSE faults
          /\ store' = IF thrown = Null
                      THEN [store EXCEPT !["accounts"] = Without(@, {id})]
                      ELSE store
  /\ mutations' = mutations + 1
  /\ UNCHANGED << mutationLimit, nextId >>
  /\ UNCHANGED << seeded, restoreVars, refVars, session, calls, formVars, exportVars, dialogVars >>

\* the rows `.in("id", ids)` selects
SelectedIn(ids) == ids \cap DOMAIN store["accounts"]

\* importedAccounts.map(acc => acc.code).join(', '), in the order of the account list
importedCodes(ids) ==
  LET hits == SelectSeq(accounts, LAMBDA acc : acc.id \in SelectedIn(ids)
                                                 /\ store["accounts"][acc.id].is_imported)
  IN joinWith([i \in 1..Len(hits) |-> store["accounts"][hits[i].id].code], ", ")

\* lines 281-301: mutationFn of bulkDeleteAccounts
BulkDeleteAccountsData(ids, fault) ==
  IF fault = "fetch" THEN "fetchError"
  ELSE IF \E id \in SelectedIn(ids) : store["accounts"][id].is_imported
  THEN "No se pueden eliminar cuentas importadas: " \o importedCodes(ids)
         \o ". Las cuentas importadas son permanentes."
  ELSE IF fault = "delete" THEN "error"
  ELSE Null

\* a bulk delete that deletes the requested accounts that are not imported and then
\* reports the imported ones
BulkDeleteAccounts_Partial ==
  /\ mutations < mutationLimit
  /\ \E ids \in (SUBSET DeleteIds) \ {{}},
        fault \in {"none"} \cup (IF MayFail THEN {"fetch", "delete"} ELSE {}) :
       LET thrown == BulkDeleteAccountsData(ids, fault)
       IN /\ mutation' = [op |-> "bulkDeleteAccounts", input |-> ids, thrown |-> thrown]
          /\ faults' = IF fault # "none" THEN faults + 1 ELSE faults
          /\ store' = IF fault = "none"
                      THEN [store EXCEPT !["accounts"] =
                              Without(@, {id \in SelectedIn(ids) : ~store["accounts"][id].is_imported})]
                      ELSE store
  /\ mutations' = mutations + 1
  /\ UNCHANGED << mutationLimit, nextId >>
  /\ UNCHANGED << seeded, restoreVars, refVars, session, calls, formVars, exportVars, dialogVars >>

\* bulkDeleteAccounts.mutate(ids)
BulkDeleteAccounts ==
  /\ mutations < mutationLimit
  /\ \E ids \in (SUBSET DeleteIds) \ {{}},
        fault \in {"none"} \cup (IF MayFail THEN {"fetch", "delete"} ELSE {}) :
       LET thrown == BulkDeleteAccountsData(ids, fault)
       IN /\ mutation' = [op |-> "bulkDeleteAccounts", input |-> ids, thrown |-> thrown]
          /\ faults' = IF fault # "none" THEN faults + 1 ELSE faults
          /\ store' = IF thrown = Null
                      THEN [store EXCEPT !["accounts"] = Without(@, ids)]
                      ELSE store
  /\ mutations' = mutations + 1
  /\ UNCHANGED << mutationLimit, nextId >>
  /\ UNCHANGED << seeded, restoreVars, refVars, session, calls, formVars, exportVars, dialogVars >>

NextAccounts == DeleteAccount \/ BulkDeleteAccounts

\* the accounts are loaded and stored, some of them imported
InitAccounts ==
  /\ InitRestoreVars({Null}, 0)
  /\ failing = {}
  /\ accounts \in AccountLists /\ customers = << >> /\ products = << >>
  /\ seeded = FALSE
  /\ \E imported \in SUBSET {"a1", "a2", "a3"} :
       store = [EmptyStore EXCEPT !["accounts"] = ImportedAccountsTable(accounts, imported)]
  /\ nextId = 1
  /\ faults = 0
  /\ DialogIdle
  /\ mutation = [op |-> "none"] /\ mutations = 0 /\ mutationLimit = MaxDeletes

SpecAccounts == InitAccounts /\ [][NextAccounts]_vars

(***************************************************************************)
(* C33: imported accounts are permanent                                    *)
(***************************************************************************)
\* the stored accounts whose is_imported flag is true
ImportedIds == {id \in DOMAIN store["accounts"] : store["accounts"][id].is_imported}

\* C33: no step of deleteAccount or bulkDeleteAccounts removes or changes a stored
\* account whose is_imported flag is true; a deleteAccount of an imported account and a
\* bulkDeleteAccounts whose ids include an imported account throw an error and leave the
\* accounts collection as it was, the accounts of the request that are not imported
\* included.
C33_ImportedPermanent ==
  [][/\ \A id \in ImportedIds :
          id \in DOMAIN store'["accounts"] /\ store'["accounts"][id] = store["accounts"][id]
     /\ (mutations' # mutations /\ mutation'.op \in {"deleteAccount", "bulkDeleteAccounts"}
           /\ mutation'.input \cap ImportedIds # {})
          => mutation'.thrown # Null /\ store' = store]_vars

\* bulkDeleteAccounts was called for an imported account together with a stored account
\* that is not imported: it threw, and both accounts are still stored
C33_Witness ==
  /\ mutation.op = "bulkDeleteAccounts" /\ faults = 0
  /\ mutation.thrown # Null
  /\ \E a \in mutation.input \cap ImportedIds :
       \E b \in (mutation.input \cap DOMAIN store["accounts"]) \ ImportedIds : a # b

(***************************************************************************)
(* C34: the leaf sets of the entry points                                  *)
(***************************************************************************)
\* C34: for the account list the form is mounted with, the leaf set of
\* HierarchicalAccountSelect, the leaf set of TransactionFormDialog and the leaf set of
\* the transactions CSV parser (the computation bulkImportTransactions repeats on the
\* stored accounts) are one and the same set.
C34_LeafSetsAgree ==
  /\ leafAccounts(accounts) = formLeafAccountIds(accounts)
  /\ formLeafAccountIds(accounts) = leafAccountIds(accounts)

(***************************************************************************)
(* C35: every active leaf account can be selected                          *)
(***************************************************************************)
\* the search queries that can bring an account on display: those of the model, and the
\* name and the code of every account of the list
QueriesFor(accs) ==
  SearchQueries \cup {accs[i].name : i \in 1..Len(accs)} \cup {accs[i].code : i \in 1..Len(accs)}

\* C35: every active account of the list without active children is a selectable item
\* of the select in some state of its search query and its expanded parent, which is
\* what open, search and expand-toggle operations can bring about.
C35_EveryLeafSelectable ==
  \A id \in leafAccounts(accounts) :
    \E q \in QueriesFor(accounts), expandedId \in {Null} \cup {accounts[i].id : i \in 1..Len(accounts)} :
      id \in selectableItems(accounts, q, expandedId)

(***************************************************************************)
(* HierarchicalAccountSelect.tsx 149-200: the search filter, step by step  *)
(***************************************************************************)
\* computations of the filter in one behaviour at most
MaxSearches == 2

\* account lists with parent references of every shape: a chain, an account that is its
\* own parent, two accounts that are each other's parent below a root, a cycle with an
\* inactive member, a parent that is missing
SearchAccountLists ==
  { << Account("a1", "Assets", "1000", Null), Account("a2", "Cash", "1100", "a1"),
       Account("a3", "Bank", "1200", "a2") >>,
    << Account("a1", "Assets", "1000", "a1"), Account("a2", "Cash", "1100", Null),
       Account("a3", "Bank", "1200", "a2") >>,
    << Account("a1", "Assets", "1000", Null), Account("a2", "Cash", "1100", "a3"),
       Account("a3", "Bank", "1200", "a2") >>,
    << Account("a1", "Assets", "1000", "a3"), Inactive(Account("a2", "Cash", "1100", "a1")),
       Account("a3", "Bank", "1200", "a2") >>,
    << Account("a1", "Assets", "1000", "a9"), Account("a2", "Cash", "1100", "a1"),
       Account("a3", "Bank", "1200", Null) >> }

\* the first round of the while loop for the account: let currentId = account.parentId
FirstParent(accs, id) == parentIdOf(accs, id)

\* the matching accounts in the order of accountMap.forEach
matchingInOrder(accs, query) ==
  LET hits == SelectSeq(activeAccounts(accs), LAMBDA acc : acc.id \in matchingAccountIds(accs, query))
  IN [i \in 1..Len(hits) |-> hits[i].id]

\* lines 149-167: the memo is computed for a search query; a blank query returns at once
StartFilter ==
  /\ walk.at \in {"idle", "done"} /\ walk.searches < MaxSearches
  /\ \E q \in SearchQueries \cup {"a", "1000"} :
       LET query == trimString(toLowerCase(q))
           todo == matchingInOrder(accounts, query)
       IN walk' =
            IF trimString(q) = ""
            THEN [at |-> "done", searchQuery |-> q, todo |-> << >>, currentId |-> Null,
                  parentsToExpand |-> {}, filtered |-> rootAccounts(accounts),
                  searches |-> walk.searches + 1]
            ELSE [at |-> "walk", searchQuery |-> q, todo |-> todo,
                  currentId |-> IF todo = << >> THEN Null ELSE FirstParent(accounts, todo[1]),
                  parentsToExpand |-> {}, filtered |-> {}, searches |-> walk.searches + 1]
  /\ UNCHANGED << dsVars, restoreVars, refVars, session, calls, revalidation, entryVars, authVars, exportVars,
                  dialogVars, txnVars >>

\* lines 170-174: one round of while (currentId)
WalkStep ==
  /\ walk.at = "walk" /\ Truthy(walk.currentId)
  /\ walk' = [walk EXCEPT !.parentsToExpand = @ \cup {walk.currentId},
                          !.currentId = parentIdOf(accounts, walk.currentId)]
  /\ UNCHANGED << dsVars, restoreVars, refVars, session, calls, revalidation, entryVars, authVars, exportVars,
                  dialogVars, txnVars >>

\* lines 161-176: the loop of an account has ended and forEach goes on to the next match
NextMatch ==
  /\ walk.at = "walk" /\ ~Truthy(walk.currentId) /\ Len(walk.todo) > 1
  /\ walk' = [walk EXCEPT !.todo = Tail(@), !.currentId = FirstParent(accounts, walk.todo[2])]
  /\ UNCHANGED << dsVars, restoreVars, refVars, session, calls, revalidation, entryVars, authVars, exportVars,
                  dialogVars, txnVars >>

\* lines 178-198: all matches are walked; the roots with a matching descendant are kept
FilterRoots ==
  /\ walk.at = "walk" /\ ~Truthy(walk.currentId) /\ Len(walk.todo) <= 1
  /\ walk' = [walk EXCEPT !.at = "done", !.todo = << >>,
                          !.filtered = filteredRoots(accounts, walk.searchQuery)]
  /\ UNCHANGED << dsVars, restoreVars, refVars, session, calls, revalidation, entryVars, authVars, exportVars,
                  dialogVars, txnVars >>

NextSearch == StartFilter \/ WalkStep \/ NextMatch \/ FilterRoots

InitSearch ==
  /\ InitRestore({Null}, 0) /\ ~seeded /\ session # Null /\ failing = {} /\ DialogIdle /\ TxnIdle
  /\ accounts \in SearchAccountLists /\ customers = << >> /\ products = << >>

\* the computation of a memo is not abandoned: a step that can be taken is taken
SpecSearch == InitSearch /\ [][NextSearch]_vars /\ WF_vars(WalkStep \/ NextMatch \/ FilterRoots)

(***************************************************************************)
(* C36: the search filter terminates                                       *)
(***************************************************************************)
\* C36: for every account list, every computation of the search filter that has begun
\* comes to its end.
C36_FilterTerminates == (walk.at = "walk") ~> (walk.at = "done")

(***************************************************************************)
(* C38: success is announced only after the save has succeeded             *)
(***************************************************************************)
SuccessTitles == {"Transaction Created", "Transaction Updated"}

\* C38: the success toast is on display and the dialog is closed by a submission only
\* when the promise of onSave has resolved; when it has rejected, no success toast is on
\* display and the dialog is still open.
C38_SuccessOnlyAfterSave ==
  /\ formToast \in SuccessTitles => saving = "resolved"
  /\ saving = "pending" => formOpen
  /\ saving = "rejected" => formOpen /\ formToast \notin SuccessTitles

(***************************************************************************)
(* The account of an imported row, from the parser to the insert:          *)
(* TransactionFormDialog.tsx 384-392, 456-500 and part_001 1025-1097       *)
(***************************************************************************)
\* account lists in which names and codes meet: two accounts with one name, a name that
\* is the code of another account, and a list with neither
SharedNameLists ==
  { << Account("a1", "Cash", "1000", Null), Account("a2", "Cash", "1100", Null),
       Account("a3", "Bank", "1200", Null) >>,
    << Account("a1", "1100", "1000", Null), Account("a2", "Cash", "1100", Null),
       Account("a3", "Bank", "1200", Null) >>,
    << Account("a1", "Assets", "1000", Null), Account("a2", "Cash", "1100", Null),
       Account("a3", "Bank", "1200", Null) >> }

NextResolve ==
  \/ HandleFileChange
  \/ FileText
  \/ HandleImport
  \/ BulkImportSettled
  \/ HandleClose
  \/ OpenDialog

\* the transactions dialog is open; the stored accounts are the accounts it was given
InitResolve ==
  /\ InitRestoreVars({Null}, 0)
  /\ failing = {}
  /\ seeded = FALSE /\ nextId = 1 /\ faults = 0
  /\ dialog = "transactions"
  /\ accounts \in SharedNameLists
  /\ customers = << >> /\ products = << >>
  /\ csvFile \in CsvFiles(dialog, MaxRows)
  /\ open = TRUE /\ file = Null /\ parsedRows = << >>
  /\ isProcessing = FALSE /\ error = Null /\ pending = NoPending
  /\ onImportCalls = << >> /\ parses = {} /\ clock = 0 /\ selections = 0
  /\ store = [EmptyStore EXCEPT !["accounts"] = AccountsTable(accounts)]
  /\ TxnIdle

SpecResolve == InitResolve /\ [][NextResolve]_vars

(***************************************************************************)
(* C37: the committed account is the account resolved at parse time        *)
(***************************************************************************)
\* C37: when the rows on display are committed, the account_from and account_to of every
\* inserted row are the accountFromId and accountToId the parser resolved for that row.
C37_CommittedAsParsed ==
  [][(pending.op = "import" /\ mutation'.op = onImport /\ mutation'.thrown = Null)
       => \A k \in 1..Len(validRows(parsedRows)) :
            LET row == store'["transactions"][Tag("n", nextId + k - 1)]
                data == validRows(parsedRows)[k].data
            IN /\ row.account_from = Get(data, "accountFromId")
               /\ row.account_to = Get(data, "accountToId")]_vars

(***************************************************************************)
(* AuthProvider, part_003 33-358: user, role and session under login,      *)
(* auth events, profile fetches and logout                                 *)
(***************************************************************************)
MaxLogins == 1
MaxLogouts == 1
MaxRefreshes == 1

\* the users that sign in
UserIds == {"u1", "u2"}

\* lines 40-47 and 279-286: the user made from the session alone
createBasicUser(userId) == [id |-> userId, name |-> "user", role |-> "viewer"]

\* lines 80-88: the user built from the profile and the role that were fetched
userData(userId, profile, userRole) ==
  [id |-> userId,
   name |-> IF profile THEN "Profile Name" ELSE "user",
   role |-> IF Truthy(userRole) THEN userRole ELSE "viewer"]

\* lines 49-73: fetchUserProfile up to its await; then: does the caller clear the ref in a
\* finally
ProfileFetch(userId, then) == [userId |-> userId, stage |-> "profile", then |-> then]

\* lines 127-133, 197-201: the effect of the provider runs: initializeAuth is started and
\* waits for getSession, the listener is subscribed
Mount ==
  /\ ~auth.mounted
  /\ auth' = [auth EXCEPT !.mounted = TRUE]
  /\ authCalls' = authCalls (+) SetToBag({[op |-> "init", at |-> "getSession"]})
  /\ UNCHANGED << fetches, authEvents, authRuns, signedOut >>
  /\ UNCHANGED << dsVars, restoreVars, refVars, session, calls, revalidation, entryVars, walk,
                  exportVars, dialogVars, txnVars >>

\* lines 135-186: initializeAuth after getSession has settled, with the session or, on an
\* error or a timeout, without
InitializeAuth ==
  /\ \E call \in BagToSet(authCalls) :
       /\ call.op = "init"
       /\ authCalls' = authCalls (-) SetToBag({call})
       /\ \E currentSession \in {session, Null} :
            IF currentSession # Null
            THEN /\ auth' = [auth EXCEPT !.session = currentSession,
                                         !.user = createBasicUser(currentSession)]
                 /\ fetches' = fetches (+) SetToBag({ProfileFetch(currentSession, FALSE)})
                 /\ signedOut' = FALSE
            ELSE /\ auth' = [auth EXCEPT !.session = Null]
                 /\ UNCHANGED << fetches, signedOut >>
  /\ UNCHANGED << authEvents, authRuns >>
  /\ UNCHANGED << dsVars, restoreVars, refVars, session, calls, revalidation, entryVars, walk,
                  exportVars, dialogVars, txnVars >>

\* lines 251-258: login up to the await of signInWithPassword
Login ==
  /\ auth.mounted /\ authRuns.login < MaxLogins
  /\ \E userId \in UserIds :
       authCalls' = authCalls (+) SetToBag({[op |-> "login", at |-> "signInWithPassword",
                                                userId |-> userId]})
  /\ authRuns' = [authRuns EXCEPT !.login = @ + 1]
  /\ UNCHANGED << auth, fetches, authEvents, signedOut >>
  /\ UNCHANGED << dsVars, restoreVars, refVars, session, calls, revalidation, entryVars, walk,
                  exportVars, dialogVars, txnVars >>

\* supabase.auth.signInWithPassword settles: with an error, or with a session, and then
\* SIGNED_IN is emitted
SignInSettled ==
  /\ \E call \in BagToSet(authCalls), ok \in BOOLEAN :
       /\ call.op = "login" /\ call.at = "signInWithPassword"
       /\ IF ok
          THEN /\ session' = call.userId
               /\ authEvents' = Append(authEvents, [event |-> "SIGNED_IN", newSession |-> call.userId])
               /\ authCalls' = (authCalls (-) SetToBag({call})) (+) SetToBag({[call EXCEPT !.at = "signedIn"]})
          ELSE /\ authCalls' = authCalls (-) SetToBag({call})
               /\ UNCHANGED << session, authEvents >>
  /\ UNCHANGED << auth, fetches, authRuns, signedOut >>
  /\ UNCHANGED << dsVars, restoreVars, refVars, calls, revalidation, entryVars, walk,
                  exportVars, dialogVars, txnVars >>

\* lines 267-300: login after the await, signed in
LoginSignedIn ==
  /\ \E call \in BagToSet(authCalls) :
       /\ call.op = "login" /\ call.at = "signedIn"
       /\ LET userId == call.userId
          IN IF auth.fetchingUserIdRef # userId
             THEN /\ auth' = [auth EXCEPT !.session = userId, !.user = createBasicUser(userId),
                                          !.fetchingUserIdRef = userId]
                  /\ fetches' = fetches (+) SetToBag({ProfileFetch(userId, TRUE)})
             ELSE /\ auth' = [auth EXCEPT !.session = userId, !.user = createBasicUser(userId)]
                  /\ UNCHANGED fetches
       /\ authCalls' = authCalls (-) SetToBag({call})
  /\ signedOut' = FALSE
  /\ UNCHANGED << authEvents, authRuns >>
  /\ UNCHANGED << dsVars, restoreVars, refVars, session, calls, revalidation, entryVars, walk,
                  exportVars, dialogVars, txnVars >>

\* supabase refreshes the token of the session and emits TOKEN_REFRESHED
TokenRefreshed ==
  /\ session # Null /\ authRuns.refresh < MaxRefreshes
  /\ authEvents' = Append(authEvents, [event |-> "TOKEN_REFRESHED", newSession |-> session])
  /\ authRuns' = [authRuns EXCEPT !.refresh = @ + 1]
  /\ UNCHANGED << auth, fetches, authCalls, signedOut >>
  /\ UNCHANGED << dsVars, restoreVars, refVars, session, calls, revalidation, entryVars, walk,
                  exportVars, dialogVars, txnVars >>

\* lines 201-240: the listener of onAuthStateChange handles the next event
OnAuthStateChange ==
  /\ auth.mounted /\ authEvents # << >>
  /\ LET event == Head(authEvents).event
         newSession == Head(authEvents).newSession
     IN IF event = "SIGNED_OUT"
        THEN /\ auth' = [auth EXCEPT !.user = NoUser, !.role = NoRole, !.session = newSession,
                                     !.fetchingUserIdRef = Null]
             /\ signedOut' = TRUE
             /\ UNCHANGED fetches
        ELSE IF newSession # Null /\ event \in {"SIGNED_IN", "TOKEN_REFRESHED"}
        THEN /\ IF auth.fetchingUserIdRef # newSession
                THEN /\ auth' = [auth EXCEPT !.session = newSession,
                                             !.user = createBasicUser(newSession),
                                             !.fetchingUserIdRef = newSession]
                     /\ fetches' = fetches (+) SetToBag({ProfileFetch(newSession, TRUE)})
                ELSE /\ auth' = [auth EXCEPT !.session = newSession]
                     /\ UNCHANGED fetches
             /\ signedOut' = FALSE
        ELSE /\ auth' = [auth EXCEPT !.session = newSession]
             /\ UNCHANGED << fetches, signedOut >>
  /\ authEvents' = Tail(authEvents)
  /\ UNCHANGED << authCalls, authRuns >>
  /\ UNCHANGED << dsVars, restoreVars, refVars, session, calls, revalidation, entryVars, walk,
                  exportVars, dialogVars, txnVars >>

\* lines 56-125 with 230-235 and 292-297: the two fetches of fetchUserProfile settle (ok) or
\* one of them times out; the user is set, the role details are asked for, and the finally of
\* the caller clears the ref
ProfileSettled ==
  /\ \E fetch \in BagToSet(fetches), ok \in BOOLEAN, profile \in BOOLEAN, userRole \in {Null, "admin"} :
       /\ fetch.stage = "profile"
       /\ ~ok => (~profile /\ userRole = Null)
       /\ LET userId == fetch.userId
              ref == IF fetch.then /\ auth.fetchingUserIdRef = userId
                     THEN Null ELSE auth.fetchingUserIdRef
          IN /\ auth' = IF ok
                        THEN [auth EXCEPT !.user = userData(userId, profile, userRole),
                                          !.fetchingUserIdRef = ref]
                        ELSE [auth EXCEPT !.fetchingUserIdRef = ref]
             /\ fetches' = (fetches (-) SetToBag({fetch}))
                             (+) (IF ok /\ Truthy(userRole)
                                  THEN SetToBag({[userId |-> userId, stage |-> "roles",
                                                  roleType |-> userRole]})
                                  ELSE EmptyBag)
  /\ UNCHANGED << authEvents, authCalls, authRuns, signedOut >>
  /\ UNCHANGED << dsVars, restoreVars, refVars, session, calls, revalidation, entryVars, walk,
                  exportVars, dialogVars, txnVars >>

\* lines 94-114: the fetch of the role details settles, with a row or without
RoleSettled ==
  /\ \E fetch \in BagToSet(fetches), roleData \in BOOLEAN :
       /\ fetch.stage = "roles"
       /\ auth' = IF roleData THEN [auth EXCEPT !.role = [roleType |-> fetch.roleType]] ELSE auth
       /\ fetches' = fetches (-) SetToBag({fetch})
  /\ UNCHANGED << authEvents, authCalls, authRuns, signedOut >>
  /\ UNCHANGED << dsVars, restoreVars, refVars, session, calls, revalidation, entryVars, walk,
                  exportVars, dialogVars, txnVars >>

\* lines 348-350: logout up to the await of signOut
Logout ==
  /\ auth.mounted /\ authRuns.logout < MaxLogouts
  /\ authCalls' = authCalls (+) SetToBag({[op |-> "logout", at |-> "signOut"]})
  /\ authRuns' = [authRuns EXCEPT !.logout = @ + 1]
  /\ UNCHANGED << auth, fetches, authEvents, signedOut >>
  /\ UNCHANGED << dsVars, restoreVars, refVars, session, calls, revalidation, entryVars, walk,
                  exportVars, dialogVars, txnVars >>

\* supabase.auth.signOut settles: the session is removed and SIGNED_OUT is emitted, or it
\* throws
SignOutSettled ==
  /\ \E call \in BagToSet(authCalls), ok \in BOOLEAN :
       /\ call.op = "logout" /\ call.at = "signOut"
       /\ authCalls' = (authCalls (-) SetToBag({call})) (+) SetToBag({[call EXCEPT !.at = "finally"]})
       /\ IF ok
          THEN /\ session' = Null
               /\ authEvents' = Append(authEvents, [event |-> "SIGNED_OUT", newSession |-> Null])
          ELSE UNCHANGED << session, authEvents >>
  /\ UNCHANGED << auth, fetches, authRuns, signedOut >>
  /\ UNCHANGED << dsVars, restoreVars, refVars, calls, revalidation, entryVars, walk,
                  exportVars, dialogVars, txnVars >>

\* lines 353-357: the finally of logout
LogoutFinally ==
  /\ \E call \in BagToSet(authCalls) :
       /\ call.op = "logout" /\ call.at = "finally"
       /\ authCalls' = authCalls (-) SetToBag({call})
  /\ auth' = [auth EXCEPT !.user = NoUser, !.role = NoRole, !.session = Null]
  /\ signedOut' = TRUE
  /\ UNCHANGED << fetches, authEvents, authRuns >>
  /\ UNCHANGED << dsVars, restoreVars, refVars, session, calls, revalidation, entryVars, walk,
                  exportVars, dialogVars, txnVars >>

NextAuthContext ==
  \/ Mount
  \/ InitializeAuth
  \/ Login
  \/ SignInSettled
  \/ LoginSignedIn
  \/ TokenRefreshed
  \/ OnAuthStateChange
  \/ ProfileSettled
  \/ RoleSettled
  \/ Logout
  \/ SignOutSettled
  \/ LogoutFinally

\* the provider as constructed; a session of an earlier visit may be stored
InitAuthContext ==
  /\ InitRestoreVars({Null}, 0)
  /\ failing = {}
  /\ store = EmptyStore /\ seeded = FALSE /\ nextId = 1 /\ faults = 0
  /\ DialogIdle /\ NoReferenceData /\ TxnIdle

SpecAuthContext == InitAuthContext /\ [][NextAuthContext]_vars

(***************************************************************************)
(* C39: after a sign-out, user and role stay null                          *)
(***************************************************************************)
\* C39: from the end of logout or the handling of SIGNED_OUT until a later sign-in, the
\* user and the role of the context are null.
C39_SignedOutStaysNull == signedOut => (auth.user = NoUser /\ auth.role = NoRole)

====
